---- MODULE Spec2Model ----
(***************************************************************************)
(* The game-economy engine of ai-city: tile and paint allocation, the      *)
(* paint/unpaint operations, the marketplace offer lifecycle and the game  *)
(* phase, as implemented by the FastAPI handlers over the SQLite tables.   *)
(*                                                                         *)
(* Spec     : every handler runs as one atomic step (one request at a      *)
(*            time) on one game.                                           *)
(* SpecConc : marketplace handlers run concurrently, each on its own       *)
(*            connection; every SELECT reads the latest committed state    *)
(*            and the handler's writes are committed together at the end.  *)
(* SpecTiles: the sequential tile market with more open offers.            *)
(* SpecPhase: paint, unpaint and declare_done run concurrently on the      *)
(*            smallest grid.                                               *)
(* SpecLobby: several games over the games and agents tables: create,      *)
(*            register, delete, start, play, reset, one request at a time. *)
(* SpecRegister: register requests run concurrently.                       *)
(* SpecAlloc: distribute_tiles and distribute_paint called on their own.   *)
(* SpecBroadcast: the observers' websockets and ConnectionManager.broadcast *)
(*            interleaved with connects and disconnects.                   *)
(* SpecInventory: get_inventory's three SELECTs interleaved with commits.  *)
(* SpecRepaint: the sequential tile market with two paint colors.          *)
(***************************************************************************)
EXTENDS Integers, Sequences, FiniteSets, TLC

VARIABLES
    status,     \* games.status of the game
    grid_size,  \* games.grid_size of the game
    coins,      \* agents.coins, by agent id
    is_done,    \* agents.is_done, by agent id
    tiles,      \* tiles table: <<x, y>> -> [owner_id, color]; SpecLobby keys
                \* the rows by the whole primary key <<x, y, game_id>>
    paint,      \* paint_inventory table: <<agent_id, color>> -> quantity
    offers,     \* offers table: offer id -> row (ids are 1..Len(offers))
    resp,       \* the HTTP response of the last completed request
    reqs,       \* requests in flight (SpecConc): slot -> handler frame
    whole,      \* history: ids of the sell_paint offers that were posted for
                \* the poster's whole stock of the color
    games,      \* games table (SpecLobby): [rows: id -> [status, grid_size],
                \* seq: the AUTOINCREMENT sequence of the table]
    agent_rows, \* agents table (SpecLobby): [rows: id -> [game_id, name], seq]
    ret,        \* the call under study and its return value: an allocation
                \* function (SpecAlloc), get_inventory (SpecInventory)
    connections,\* ConnectionManager.connections: the list of observers
    sockets     \* the WebSocket of every observer: "new", "open", "broken"
                \* (the peer is gone, sends fail), "gone" (endpoint left)

dbVars == <<status, grid_size, coins, is_done, tiles, paint, offers>>
gameVars == <<status, grid_size, coins, is_done, tiles, paint, offers, resp, reqs, whole>>
lobbyVars == <<games, agent_rows>>
wsVars == <<connections, sockets>>
vars == <<gameVars, lobbyVars, ret, wsVars>>

----------------------------------------------------------------------------
(* Bounds of the model *)

\* grid_size of the game (the schema's default is 32)
GridSize == 3
\* number of agents registered into the game before it starts (2..8)
NumAgents == 2
\* rows the offers table may hold
MaxOffers == 2
\* side of the small grid, on which a game can be played to its end
SmallGrid == 1

(* Program constants *)

\* register refuses a game that has 8 agents
MaxAgents == 8
\* agents.coins DEFAULT 1000
InitialCoins == 1000
\* each agent ends with exactly 4 colors
ColorsPerAgent == 4

NULL == "NULL"
NoneInt == 0 - 1

\* no allocation function has been called
NoCall == [fn |-> "none"]

\* the specifications of one game keep its columns in status and grid_size
\* and leave the games and agents tables and the call record aside
NoObservers == connections = <<>> /\ sockets = <<>>

OneGame == games = <<>> /\ agent_rows = <<>> /\ ret = NoCall /\ NoObservers

\* models.COLORS / COLOR_NAMES, in dict order
COLOR_NAMES ==
    <<"indigo", "teal", "saffron", "coral", "vermillion", "slate", "plum", "cream">>

\* ids of the rows of the agents table
Agents == DOMAIN coins
\* SELECT id FROM agents WHERE game_id = ?, in rowid order
AgentIds == [i \in 1..Cardinality(Agents) |-> i]

Range(s) == {s[i] : i \in DOMAIN s}

----------------------------------------------------------------------------
(* game.py: allocation *)

\* Python 3 round() of the non-negative rational n/d: half to even
PyRound(n, d) ==
    LET q == n \div d
        r == n % d
    IN  IF 2 * r < d THEN q
        ELSE IF 2 * r > d THEN q + 1
        ELSE IF q % 2 = 0 THEN q ELSE q + 1

\* the ranges taken inclusive of x1 and y1
RectCells_Inclusive(owner, x0, y0, x1, y1) ==
    LET h == y1 - y0 + 1
    IN  [k \in 1..((x1 - x0 + 1) * h) |->
             <<x0 + ((k - 1) \div h), y0 + ((k - 1) % h), owner>>]

\* the base case of _assign: for x in range(x0, x1): for y in range(y0, y1)
RectCells(owner, x0, y0, x1, y1) ==
    IF x1 <= x0 \/ y1 <= y0 THEN <<>>
    ELSE LET h == y1 - y0
         IN  [k \in 1..((x1 - x0) * h) |->
                  <<x0 + ((k - 1) \div h), y0 + ((k - 1) % h), owner>>]

\* every rectangle split by a vertical line
SplitVertically_Always(w, h) == TRUE

\* (x1 - x0) >= (y1 - y0): the rectangle is split along its longer axis
SplitVertically(w, h) == w >= h

RECURSIVE _assign(_, _, _, _, _)
_assign(agents, x0, y0, x1, y1) ==
    IF Len(agents) = 1 THEN RectCells(agents[1], x0, y0, x1, y1)
    ELSE LET mid == Len(agents) \div 2
             left == SubSeq(agents, 1, mid)
             right == SubSeq(agents, mid + 1, Len(agents))
         IN  IF SplitVertically(x1 - x0, y1 - y0)
             THEN LET split == x0 + PyRound((x1 - x0) * Len(left), Len(agents))
                  IN  _assign(left, x0, y0, split, y1)
                          \o _assign(right, split, y0, x1, y1)
             ELSE LET split == y0 + PyRound((y1 - y0) * Len(left), Len(agents))
                  IN  _assign(left, x0, y0, x1, split)
                          \o _assign(right, x0, split, x1, y1)

\* list of (x, y, owner_id)
distribute_tiles(size, agent_ids) ==
    _assign(agent_ids, 0, 0, size, size)

\* math.ceil(n / d) for n >= 0, d > 0
CeilDiv(n, d) == (n + d - 1) \div d

\* list.remove(x): drop the first occurrence
RemoveFirst(s, x) ==
    LET i == CHOOSE j \in DOMAIN s : s[j] = x /\ \A k \in 1..(j - 1) : s[k] # x
    IN  SubSeq(s, 1, i - 1) \o SubSeq(s, i + 1, Len(s))

\* first pass: round-robin over the shuffled palette
FirstPass(agent_ids, shuffled, aid) ==
    {shuffled[i] : i \in {j \in DOMAIN shuffled :
                             agent_ids[((j - 1) % Len(agent_ids)) + 1] = aid}}

PicksNeeded(agent_ids, shuffled, k) ==
    LET have == Cardinality(FirstPass(agent_ids, shuffled, agent_ids[k]))
    IN  IF have < ColorsPerAgent THEN ColorsPerAgent - have ELSE 0

RECURSIVE PicksBefore(_, _, _)
PicksBefore(agent_ids, shuffled, k) ==
    IF k <= 1 THEN 0
    ELSE PicksBefore(agent_ids, shuffled, k - 1)
             + PicksNeeded(agent_ids, shuffled, k - 1)

\* the second pass left out
TopUp_None(have, available, draws) == have

\* second pass for one agent: random.choice(available) is available[draw % len],
\* the draws taken from the random source in order
RECURSIVE TopUp(_, _, _)
TopUp(have, available, draws) ==
    IF Cardinality(have) >= ColorsPerAgent THEN have
    ELSE LET pick == available[(Head(draws) % Len(available)) + 1]
         IN  TopUp(have \cup {pick}, RemoveFirst(available, pick), Tail(draws))

agent_colors(agent_ids, shuffled, draws, k) ==
    LET have == FirstPass(agent_ids, shuffled, agent_ids[k])
        available == SelectSeq(COLOR_NAMES, LAMBDA c : c \notin have)
        skip == PicksBefore(agent_ids, shuffled, k)
    IN  TopUp(have, available, SubSeq(draws, skip + 1, Len(draws)))

\* set of (agent_id, color, quantity); shuffled and draws are the outcomes of
\* random.shuffle and of the successive random.choice calls
distribute_paint(agent_ids, size, shuffled, draws) ==
    LET n == Len(agent_ids)
        quantity == CeilDiv(size * size, n * 4)
    IN  UNION {{<<agent_ids[k], c, quantity>> :
                   c \in agent_colors(agent_ids, shuffled, draws, k)} :
               k \in DOMAIN agent_ids}

----------------------------------------------------------------------------
(* Inputs of the requests *)

\* outcomes of random.shuffle(shuffled) explored by start_game
Shuffles == {COLOR_NAMES}
\* outcomes of the random.choice draws explored by start_game
DrawTapes == {[j \in 1..(8 * ColorsPerAgent) |-> 0]}

\* colors named by paint requests and paint offers
ReqColors == {"indigo"}
\* coordinates named by paint, unpaint and tile offers
ReqCoords == {<<0, 0>>}
\* paint_quantity of paint offers
ReqQuantities == {1, 2}
\* price of tile offers and of paint offers (OfferRequest.price is validated > 0)
TilePrices == {400}
PaintPrices == {700}

TileOffer(type, xy, price) ==
    [offer_type |-> type, tile_x |-> xy[1], tile_y |-> xy[2],
     paint_color |-> NULL, paint_quantity |-> NoneInt, price |-> price]

PaintOffer(type, color, quantity, price) ==
    [offer_type |-> type, tile_x |-> NoneInt, tile_y |-> NoneInt,
     paint_color |-> color, paint_quantity |-> quantity, price |-> price]

OfferRequests ==
    {TileOffer(t, xy, p) : t \in {"sell_tile", "buy_tile"}, xy \in ReqCoords, p \in TilePrices}
    \cup {PaintOffer(t, c, q, p) :
              t \in {"sell_paint", "buy_paint"}, c \in ReqColors,
              q \in ReqQuantities, p \in PaintPrices}

----------------------------------------------------------------------------
(* services.py: queries and checks over the tables *)

Response(op, code, detail) == [op |-> op, code |-> code, detail |-> detail]

\* SELECT quantity FROM paint_inventory WHERE agent_id = ? AND color = ?
HasStock(p, a, c) == <<a, c>> \in DOMAIN p
Stock(p, a, c) == IF HasStock(p, a, c) THEN p[<<a, c>>] ELSE 0

\* the conflict clause overwriting the quantity
Upsert_Replace(p, a, c, q) ==
    IF HasStock(p, a, c) THEN [p EXCEPT ![<<a, c>>] = q]
    ELSE p @@ (<<a, c>> :> q)

\* INSERT ... ON CONFLICT(agent_id, color) DO UPDATE SET quantity = quantity + ?
Upsert(p, a, c, q) ==
    IF HasStock(p, a, c) THEN [p EXCEPT ![<<a, c>>] = @ + q]
    ELSE p @@ (<<a, c>> :> q)

\* UPDATE paint_inventory SET quantity = quantity - ? WHERE agent_id = ? AND color = ?
Deduct_None(p, a, c, q) == p

\* UPDATE paint_inventory SET quantity = quantity - q
Deduct(p, a, c, q) ==
    IF HasStock(p, a, c) THEN [p EXCEPT ![<<a, c>>] = @ - q] ELSE p

\* SUM(price) over the offer rows S
RECURSIVE SumPrice(_, _)
SumPrice(os, S) ==
    IF S = {} THEN 0
    ELSE LET i == CHOOSE j \in S : TRUE IN os[i].price + SumPrice(os, S \ {i})

\* SUM(paint_quantity) over the offer rows S
RECURSIVE SumQuantity(_, _)
SumQuantity(os, S) ==
    IF S = {} THEN 0
    ELSE LET i == CHOOSE j \in S : TRUE
         IN  os[i].paint_quantity + SumQuantity(os, S \ {i})

\* coins locked in the agent's open buy offers
\* only the buy_tile offers counted
LockedCoins_TilesOnly(os, a) ==
    SumPrice(os, {i \in DOMAIN os :
                     /\ os[i].agent_id = a
                     /\ os[i].status = "open"
                     /\ os[i].offer_type = "buy_tile"})

\* SELECT COALESCE(SUM(price), 0) over the agent's open buy offers
LockedCoins(os, a) ==
    SumPrice(os, {i \in DOMAIN os :
                     /\ os[i].agent_id = a
                     /\ os[i].status = "open"
                     /\ os[i].offer_type \in {"buy_tile", "buy_paint"}})

\* the locked-coins query left out
available_coins_Balance(cs, os, a) == cs[a]

available_coins(cs, os, a) == cs[a] - LockedCoins(os, a)

\* paint locked in the agent's open sell_paint offers of the color
LockedPaint(os, a, c) ==
    SumQuantity(os, {i \in DOMAIN os :
                        /\ os[i].agent_id = a
                        /\ os[i].status = "open"
                        /\ os[i].offer_type = "sell_paint"
                        /\ os[i].paint_color = c})

\* the locked-paint query left out
available_paint_Stock(p, os, a, c) == Stock(p, a, c)

available_paint(p, os, a, c) == Stock(p, a, c) - LockedPaint(os, a, c)

TileExists(ts, x, y) == <<x, y>> \in DOMAIN ts

\* the lock query left out
TileLocked_Never(os, a, x, y) == FALSE

\* check_tile_not_locked's query finds a row
TileLocked(os, a, x, y) ==
    \E i \in DOMAIN os :
        /\ os[i].status = "open"
        /\ os[i].offer_type \in {"sell_tile", "buy_tile"}
        /\ os[i].tile_x = x /\ os[i].tile_y = y
        /\ os[i].agent_id = a

\* the open sell_tile query left out
TileListed_Never(os, a, x, y) == FALSE

\* the open sell_tile query of post_offer and accept_offer finds a row
TileListed(os, a, x, y) ==
    \E i \in DOMAIN os :
        /\ os[i].status = "open"
        /\ os[i].offer_type = "sell_tile"
        /\ os[i].tile_x = x /\ os[i].tile_y = y
        /\ os[i].agent_id = a

\* a finished game passing for a running one
require_running_game_Started(st) == st # "waiting"

\* require_running_game passes: SELECT status FROM games gives 'running'
require_running_game(st) == st = "running"

\* the is_done UPDATE left out
revoke_done_Never(done, a, snapshot) == done

\* revoke_done: the flag is cleared when the authenticated snapshot has it set
revoke_done(done, a, snapshot) ==
    IF snapshot THEN [done EXCEPT ![a] = FALSE] ELSE done

----------------------------------------------------------------------------
(* Initial state: a waiting game with its agents registered *)

Init ==
    /\ status = "waiting"
    /\ grid_size \in {SmallGrid, GridSize}
    /\ coins = [a \in 1..NumAgents |-> InitialCoins]
    /\ is_done = [a \in 1..NumAgents |-> FALSE]
    /\ tiles = <<>>
    /\ paint = <<>>
    /\ offers = <<>>
    /\ resp = Response("register", 200, "ok")
    /\ reqs = <<>>
    /\ whole = {}
    /\ OneGame

----------------------------------------------------------------------------
(* routes/game.py *)

\* the tiles inserted without their owner
TilesTable_NoOwner(triples) ==
    [xy \in {<<t[1], t[2]>> : t \in Range(triples)} |->
        [owner_id |-> NoneInt, color |-> NULL]]

TilesTable(triples) ==
    [xy \in {<<t[1], t[2]>> : t \in Range(triples)} |->
        [owner_id |-> (CHOOSE t \in Range(triples) : <<t[1], t[2]>> = xy)[3],
         color |-> NULL]]

PaintTable(triples) ==
    [k \in {<<t[1], t[2]>> : t \in triples} |->
        (CHOOSE t \in triples : <<t[1], t[2]>> = k)[3]]

StartGame ==
    /\ UNCHANGED <<grid_size, coins, is_done, offers, reqs, whole>>
    /\ IF status = "running"
       THEN /\ resp' = Response("start_game", 400, "Game already running")
            /\ UNCHANGED <<status, tiles, paint>>
       ELSE IF status # "waiting"
       THEN /\ resp' = Response("start_game", 400, "No game in waiting state")
            /\ UNCHANGED <<status, tiles, paint>>
       ELSE IF Len(AgentIds) < 2
       THEN /\ resp' = Response("start_game", 400, "Need at least 2 agents to start")
            /\ UNCHANGED <<status, tiles, paint>>
       ELSE \E shuffled \in Shuffles, draws \in DrawTapes :
            /\ tiles' = TilesTable(distribute_tiles(grid_size, AgentIds))
            /\ paint' = PaintTable(distribute_paint(AgentIds, grid_size, shuffled, draws))
            /\ status' = "running"
            /\ resp' = Response("start_game", 200, "running")

----------------------------------------------------------------------------
(* routes/grid.py *)

\* the old color not returned
Refund_Never(p, a, old) == p

\* paint_tile: if tile["color"]: quantity + 1 for the tile's color
Refund(p, a, old) == IF old # NULL THEN Upsert(p, a, old, 1) ELSE p

PaintTile(a, x, y, color) ==
    /\ UNCHANGED <<status, grid_size, coins, offers, reqs, whole>>
    /\ IF ~require_running_game(status)
       THEN /\ resp' = Response("paint_tile", 400, "Game is not running")
            /\ UNCHANGED <<is_done, tiles, paint>>
       ELSE IF ~TileExists(tiles, x, y)
       THEN /\ resp' = Response("paint_tile", 404, "Tile not found")
            /\ UNCHANGED <<is_done, tiles, paint>>
       ELSE IF tiles[<<x, y>>].owner_id # a
       THEN /\ resp' = Response("paint_tile", 403, "You don't own this tile")
            /\ UNCHANGED <<is_done, tiles, paint>>
       ELSE IF TileLocked(offers, a, x, y)
       THEN /\ resp' = Response("paint_tile", 400, "Tile is locked in a marketplace offer")
            /\ UNCHANGED <<is_done, tiles, paint>>
       ELSE IF ~HasStock(paint, a, color) \/ paint[<<a, color>>] < 1
       THEN /\ resp' = Response("paint_tile", 400, "No paint available")
            /\ UNCHANGED <<is_done, tiles, paint>>
       ELSE LET old == tiles[<<x, y>>].color
                refunded == Refund(paint, a, old)
            IN  /\ tiles' = [tiles EXCEPT ![<<x, y>>].color = color]
                /\ paint' = Deduct(refunded, a, color, 1)
                /\ is_done' = revoke_done(is_done, a, is_done[a])
                /\ resp' = Response("paint_tile", 200, "painted")

UnpaintTile(a, x, y) ==
    /\ UNCHANGED <<status, grid_size, coins, offers, reqs, whole>>
    /\ IF ~require_running_game(status)
       THEN /\ resp' = Response("unpaint_tile", 400, "Game is not running")
            /\ UNCHANGED <<is_done, tiles, paint>>
       ELSE IF ~TileExists(tiles, x, y)
       THEN /\ resp' = Response("unpaint_tile", 404, "Tile not found")
            /\ UNCHANGED <<is_done, tiles, paint>>
       ELSE IF tiles[<<x, y>>].owner_id # a
       THEN /\ resp' = Response("unpaint_tile", 403, "You don't own this tile")
            /\ UNCHANGED <<is_done, tiles, paint>>
       ELSE IF tiles[<<x, y>>].color = NULL
       THEN /\ resp' = Response("unpaint_tile", 400, "Tile is not painted")
            /\ UNCHANGED <<is_done, tiles, paint>>
       ELSE IF TileLocked(offers, a, x, y)
       THEN /\ resp' = Response("unpaint_tile", 400, "Tile is locked in a marketplace offer")
            /\ UNCHANGED <<is_done, tiles, paint>>
       ELSE /\ paint' = Upsert(paint, a, tiles[<<x, y>>].color, 1)
            /\ tiles' = [tiles EXCEPT ![<<x, y>>].color = NULL]
            /\ is_done' = revoke_done(is_done, a, is_done[a])
            /\ resp' = Response("unpaint_tile", 200, "unpainted")

----------------------------------------------------------------------------
(* routes/marketplace.py *)

OfferRow(a, req) ==
    [agent_id |-> a, offer_type |-> req.offer_type, status |-> "open",
     tile_x |-> req.tile_x, tile_y |-> req.tile_y,
     paint_color |-> req.paint_color, paint_quantity |-> req.paint_quantity,
     price |-> req.price, accepted_by |-> NoneInt]

\* the validation and locking checks of post_offer, evaluated on tables
\* (cs, ts, p, os): the error response, or the 200 response when all pass
\* any existing tile taken as the poster's
OwnsTile_Any(ts, a, x, y) == TileExists(ts, x, y)

\* post_offer, sell_tile: the tile row exists and its owner_id is the agent
OwnsTile(ts, a, x, y) == TileExists(ts, x, y) /\ ts[<<x, y>>].owner_id = a

PostOfferCheck(cs, ts, p, os, a, req) ==
    IF req.offer_type = "sell_tile" THEN
        IF req.tile_x = NoneInt \/ req.tile_y = NoneInt
        THEN Response("post_offer", 400, "tile_x and tile_y required")
        ELSE IF ~OwnsTile(ts, a, req.tile_x, req.tile_y)
        THEN Response("post_offer", 403, "You don't own this tile")
        ELSE IF TileListed(os, a, req.tile_x, req.tile_y)
        THEN Response("post_offer", 400, "Tile already listed for sale")
        ELSE Response("post_offer", 200, "open")
    ELSE IF req.offer_type = "buy_tile" THEN
        IF req.tile_x = NoneInt \/ req.tile_y = NoneInt
        THEN Response("post_offer", 400, "tile_x and tile_y required")
        ELSE IF ~TileExists(ts, req.tile_x, req.tile_y)
        THEN Response("post_offer", 404, "Tile not found")
        ELSE IF ts[<<req.tile_x, req.tile_y>>].owner_id = a
        THEN Response("post_offer", 400, "You already own this tile")
        ELSE IF available_coins(cs, os, a) < req.price
        THEN Response("post_offer", 400, "Insufficient coins")
        ELSE Response("post_offer", 200, "open")
    ELSE IF req.offer_type = "sell_paint" THEN
        IF req.paint_color = NULL \/ req.paint_quantity = NoneInt
               \/ req.paint_quantity = 0
        THEN Response("post_offer", 400, "paint_color and paint_quantity required")
        ELSE IF req.paint_quantity < 1
        THEN Response("post_offer", 400, "paint_quantity must be positive")
        ELSE IF available_paint(p, os, a, req.paint_color) < req.paint_quantity
        THEN Response("post_offer", 400, "Insufficient paint")
        ELSE Response("post_offer", 200, "open")
    ELSE \* buy_paint
        IF req.paint_color = NULL \/ req.paint_quantity = NoneInt
               \/ req.paint_quantity = 0
        THEN Response("post_offer", 400, "paint_color and paint_quantity required")
        ELSE IF req.paint_quantity < 1
        THEN Response("post_offer", 400, "paint_quantity must be positive")
        ELSE IF available_coins(cs, os, a) < req.price
        THEN Response("post_offer", 400, "Insufficient coins")
        ELSE Response("post_offer", 200, "open")

\* history: the new offer is a sell_paint offer for all the poster holds of the color
PostedWhole(w, p, os, a, req) ==
    IF req.offer_type = "sell_paint" /\ req.paint_quantity = Stock(p, a, req.paint_color)
    THEN w \cup {Len(os) + 1} ELSE w

\* post_offer while the offers table holds fewer than cap rows
PostOfferUpTo(cap, a, req) ==
    /\ UNCHANGED <<status, grid_size, coins, tiles, paint, reqs>>
    /\ IF ~require_running_game(status)
       THEN /\ resp' = Response("post_offer", 400, "Game is not running")
            /\ UNCHANGED <<is_done, offers, whole>>
       ELSE LET r == PostOfferCheck(coins, tiles, paint, offers, a, req)
            IN  IF r.code # 200
                THEN /\ resp' = r
                     /\ UNCHANGED <<is_done, offers, whole>>
                ELSE /\ Len(offers) < cap
                     /\ offers' = Append(offers, OfferRow(a, req))
                     /\ is_done' = revoke_done(is_done, a, is_done[a])
                     /\ whole' = PostedWhole(whole, paint, offers, a, req)
                     /\ resp' = r

PostOffer(a, req) == PostOfferUpTo(MaxOffers, a, req)

\* the settlement checks left out
SettleCheck_Pass(cs, ts, p, os, a, o) == Response("accept_offer", 200, "accepted")

\* the settlement precondition of accept_offer for offer row o and accepter a:
\* the error response, or the 200 response when the trade may be executed
SettleCheck(cs, ts, p, os, a, o) ==
    IF o.offer_type \in {"sell_tile", "sell_paint"} THEN
        IF available_coins(cs, os, a) < o.price
        THEN Response("accept_offer", 400, "Insufficient coins")
        ELSE Response("accept_offer", 200, "accepted")
    ELSE IF o.offer_type = "buy_tile" THEN
        IF ~TileExists(ts, o.tile_x, o.tile_y)
               \/ ts[<<o.tile_x, o.tile_y>>].owner_id # a
        THEN Response("accept_offer", 403, "You don't own this tile")
        ELSE IF TileListed(os, a, o.tile_x, o.tile_y)
        THEN Response("accept_offer", 400, "Tile is locked in your own offer")
        ELSE Response("accept_offer", 200, "accepted")
    ELSE \* buy_paint
        IF available_paint(p, os, a, o.paint_color) < o.paint_quantity
        THEN Response("accept_offer", 400, "Insufficient paint")
        ELSE Response("accept_offer", 200, "accepted")

\* the payer's UPDATE left out
Pay_CreditOnly(cs, payer, payee, price) == [cs EXCEPT ![payee] = @ + price]

\* UPDATE agents SET coins = coins - price WHERE id = payer; ... + price ... payee
Pay(cs, payer, payee, price) ==
    LET debited == [cs EXCEPT ![payer] = @ - price]
    IN  [debited EXCEPT ![payee] = @ + price]

\* the owner UPDATE left out
SetOwner_Skipped(ts, x, y, a) == ts

\* UPDATE tiles SET owner_id = ? WHERE x = ? AND y = ?
SetOwner(ts, x, y, a) ==
    IF TileExists(ts, x, y) THEN [ts EXCEPT ![<<x, y>>].owner_id = a] ELSE ts

\* the giver's UPDATE left out
MovePaint_NoDeduct(p, from, to, c, q) == Upsert(p, to, c, q)

\* paint moves from one agent's row to the other's (created when absent)
MovePaint(p, from, to, c, q) == Upsert(Deduct(p, from, c, q), to, c, q)

\* the coins table after the trade of offer row o accepted by a
SettledCoins(cs, a, o) ==
    IF o.offer_type \in {"sell_tile", "sell_paint"}
    THEN Pay(cs, a, o.agent_id, o.price)
    ELSE Pay(cs, o.agent_id, a, o.price)

SettledTiles(ts, a, o) ==
    IF o.offer_type = "sell_tile" THEN SetOwner(ts, o.tile_x, o.tile_y, a)
    ELSE IF o.offer_type = "buy_tile" THEN SetOwner(ts, o.tile_x, o.tile_y, o.agent_id)
    ELSE ts

SettledPaint(p, a, o) ==
    IF o.offer_type = "sell_paint"
    THEN MovePaint(p, o.agent_id, a, o.paint_color, o.paint_quantity)
    ELSE IF o.offer_type = "buy_paint"
    THEN MovePaint(p, a, o.agent_id, o.paint_color, o.paint_quantity)
    ELSE p

\* UPDATE offers SET status = 'accepted', accepted_by = ? WHERE id = ?
MarkAccepted(os, id, a) ==
    IF id \in DOMAIN os
    THEN [os EXCEPT ![id].status = "accepted", ![id].accepted_by = a]
    ELSE os

\* the WHERE clause left out
MarkCancelled_Every(os, id) == [i \in DOMAIN os |-> [os[i] EXCEPT !.status = "cancelled"]]

\* UPDATE offers SET status = 'cancelled' WHERE id = ?
MarkCancelled(os, id) ==
    IF id \in DOMAIN os THEN [os EXCEPT ![id].status = "cancelled"] ELSE os

\* the poster test left out
IsOwnOffer_Never(o, a) == FALSE

\* offer["agent_id"] == agent["id"]
IsOwnOffer(o, a) == o.agent_id = a

\* the status check only refusing cancelled offers
IsOpen_NotCancelled(o) == o.status # "cancelled"

\* offer["status"] == "open"
IsOpen(o) == o.status = "open"

AcceptOffer(a, id) ==
    /\ UNCHANGED <<status, grid_size, reqs, whole>>
    /\ IF ~require_running_game(status)
       THEN /\ resp' = Response("accept_offer", 400, "Game is not running")
            /\ UNCHANGED <<coins, is_done, tiles, paint, offers>>
       ELSE IF id \notin DOMAIN offers
       THEN /\ resp' = Response("accept_offer", 404, "Offer not found")
            /\ UNCHANGED <<coins, is_done, tiles, paint, offers>>
       ELSE IF ~IsOpen(offers[id])
       THEN /\ resp' = Response("accept_offer", 400, "Offer is no longer open")
            /\ UNCHANGED <<coins, is_done, tiles, paint, offers>>
       ELSE IF IsOwnOffer(offers[id], a)
       THEN /\ resp' = Response("accept_offer", 400, "Cannot accept your own offer")
            /\ UNCHANGED <<coins, is_done, tiles, paint, offers>>
       ELSE LET r == SettleCheck(coins, tiles, paint, offers, a, offers[id])
            IN  IF r.code # 200
                THEN /\ resp' = r
                     /\ UNCHANGED <<coins, is_done, tiles, paint, offers>>
                ELSE /\ coins' = SettledCoins(coins, a, offers[id])
                     /\ tiles' = SettledTiles(tiles, a, offers[id])
                     /\ paint' = SettledPaint(paint, a, offers[id])
                     /\ offers' = MarkAccepted(offers, id, a)
                     /\ is_done' = revoke_done(is_done, a, is_done[a])
                     /\ resp' = r

CancelOffer(a, id) ==
    /\ UNCHANGED <<status, grid_size, coins, is_done, tiles, paint, reqs, whole>>
    /\ IF id \notin DOMAIN offers
       THEN /\ resp' = Response("cancel_offer", 404, "Offer not found")
            /\ UNCHANGED offers
       ELSE IF offers[id].agent_id # a
       THEN /\ resp' = Response("cancel_offer", 403, "Not your offer")
            /\ UNCHANGED offers
       ELSE IF ~IsOpen(offers[id])
       THEN /\ resp' = Response("cancel_offer", 400, "Offer is not open")
            /\ UNCHANGED offers
       ELSE /\ offers' = MarkCancelled(offers, id)
            /\ resp' = Response("cancel_offer", 200, "cancelled")

----------------------------------------------------------------------------
(* routes/agent.py *)

\* the done flags not consulted
NotDone_Ignored(done) == 0

\* SELECT COUNT(*) FROM agents WHERE is_done = FALSE
NotDone(done) == Cardinality({a \in Agents : ~done[a]})
\* the unpainted-tiles query left out
Unpainted_Ignored(ts) == 0

\* SELECT COUNT(*) FROM tiles WHERE color IS NULL
Unpainted(ts) == Cardinality({xy \in DOMAIN ts : ts[xy].color = NULL})

DeclareDone(a) ==
    /\ UNCHANGED <<grid_size, coins, tiles, paint, offers, reqs, whole>>
    /\ IF ~require_running_game(status)
       THEN /\ resp' = Response("declare_done", 400, "Game is not running")
            /\ UNCHANGED <<status, is_done>>
       ELSE /\ is_done' = [is_done EXCEPT ![a] = TRUE]
            /\ status' = IF NotDone(is_done') = 0 /\ Unpainted(tiles) = 0
                         THEN "finished" ELSE status
            /\ resp' = Response("declare_done", 200, "done")

----------------------------------------------------------------------------
Next ==
    \/ StartGame /\ UNCHANGED <<lobbyVars, ret, wsVars>>
    \/ \E a \in Agents, xy \in ReqCoords, c \in ReqColors : PaintTile(a, xy[1], xy[2], c) /\ UNCHANGED <<lobbyVars, ret, wsVars>>
    \/ \E a \in Agents, xy \in ReqCoords : UnpaintTile(a, xy[1], xy[2]) /\ UNCHANGED <<lobbyVars, ret, wsVars>>
    \/ \E a \in Agents, req \in OfferRequests : PostOffer(a, req) /\ UNCHANGED <<lobbyVars, ret, wsVars>>
    \/ \E a \in Agents, id \in 1..MaxOffers : AcceptOffer(a, id) /\ UNCHANGED <<lobbyVars, ret, wsVars>>
    \/ \E a \in Agents, id \in 1..MaxOffers : CancelOffer(a, id) /\ UNCHANGED <<lobbyVars, ret, wsVars>>
    \/ \E a \in Agents : DeclareDone(a) /\ UNCHANGED <<lobbyVars, ret, wsVars>>

Spec == Init /\ [][Next]_vars

----------------------------------------------------------------------------
(* Concurrent marketplace requests.

   get_db yields one connection per request and every `await db.execute`
   is a point where the event loop may run another handler.  A handler's
   SELECTs see the latest committed tables; its UPDATE/INSERT statements up
   to `await db.commit()` are one transaction.  A request in flight is a
   frame in reqs: the route, the next step, the authenticated agent row
   (its id and is_done as read by get_current_agent), the arguments and the
   offer row fetched by the handler. *)

\* number of requests in flight at once
MaxInFlight == 2

Slots == 1..MaxInFlight

NoRequest == TileOffer(NULL, <<NoneInt, NoneInt>>, NoneInt)
NoRow == OfferRow(NoneInt, NoRequest)

IdleFrame ==
    [op |-> "idle", pc |-> "idle", agent |-> NoneInt, is_done |-> FALSE,
     offer_id |-> NoneInt, req |-> NoRequest, offer |-> NoRow]

Frame(op, pc, a, id, req) ==
    [op |-> op, pc |-> pc, agent |-> a, is_done |-> is_done[a],
     offer_id |-> id, req |-> req, offer |-> NoRow]

\* requests the concurrent clients send
ConcPrices == {700}
ConcRequests ==
    {TileOffer("buy_tile", xy, p) : xy \in ReqCoords, p \in ConcPrices}
    \cup {PaintOffer("sell_paint", c, 1, p) : c \in ReqColors, p \in ConcPrices}

\* a running game right after start_game's allocation
InitConc ==
    LET ids == [i \in 1..NumAgents |-> i]
    IN  /\ status = "running"
        /\ grid_size = GridSize
        /\ coins = [a \in 1..NumAgents |-> InitialCoins]
        /\ is_done = [a \in 1..NumAgents |-> FALSE]
        /\ tiles = TilesTable(distribute_tiles(GridSize, ids))
        /\ \E shuffled \in Shuffles, draws \in DrawTapes :
               paint = PaintTable(distribute_paint(ids, GridSize, shuffled, draws))
        /\ offers = <<>>
        /\ resp = Response("start_game", 200, "running")
        /\ reqs = [s \in Slots |-> IdleFrame]
        /\ whole = {}
        /\ OneGame

\* the request is received on the first free connection
Free(s) == reqs[s].op = "idle" /\ \A t \in 1..(s - 1) : reqs[t].op # "idle"

InFlight(op) == Cardinality({s \in Slots : reqs[s].op = op})

Finish(s, r) ==
    /\ reqs' = [reqs EXCEPT ![s] = IdleFrame]
    /\ resp' = r

\* post_offer: get_current_agent, require_running_game
BeginPost(a, req) ==
    /\ Len(offers) + InFlight("post_offer") < MaxOffers
    /\ \E s \in Slots :
        /\ Free(s)
        /\ IF ~require_running_game(status)
           THEN Finish(s, Response("post_offer", 400, "Game is not running"))
           ELSE /\ reqs' = [reqs EXCEPT ![s] = Frame("post_offer", "check", a, NoneInt, req)]
                /\ UNCHANGED resp
    /\ UNCHANGED <<dbVars, whole>>

\* post_offer: the validation and locking SELECTs
PostCheck(s) ==
    /\ reqs[s].op = "post_offer" /\ reqs[s].pc = "check"
    /\ LET r == PostOfferCheck(coins, tiles, paint, offers, reqs[s].agent, reqs[s].req)
       IN  IF r.code # 200
           THEN Finish(s, r)
           ELSE /\ reqs' = [reqs EXCEPT ![s].pc = "commit"]
                /\ UNCHANGED resp
    /\ UNCHANGED <<dbVars, whole>>

\* post_offer: INSERT INTO offers, revoke_done, commit
PostCommit(s) ==
    /\ reqs[s].op = "post_offer" /\ reqs[s].pc = "commit"
    /\ offers' = Append(offers, OfferRow(reqs[s].agent, reqs[s].req))
    /\ is_done' = revoke_done(is_done, reqs[s].agent, reqs[s].is_done)
    /\ whole' = PostedWhole(whole, paint, offers, reqs[s].agent, reqs[s].req)
    /\ Finish(s, Response("post_offer", 200, "open"))
    /\ UNCHANGED <<status, grid_size, coins, tiles, paint>>

\* accept_offer: get_current_agent, require_running_game
BeginAccept(a, id) ==
    /\ \E s \in Slots :
        /\ Free(s)
        /\ IF ~require_running_game(status)
           THEN Finish(s, Response("accept_offer", 400, "Game is not running"))
           ELSE /\ reqs' = [reqs EXCEPT ![s] = Frame("accept_offer", "read", a, id, NoRequest)]
                /\ UNCHANGED resp
    /\ UNCHANGED <<dbVars, whole>>

\* accept_offer: SELECT * FROM offers WHERE id = ?, then the status and owner checks
AcceptRead(s) ==
    /\ reqs[s].op = "accept_offer" /\ reqs[s].pc = "read"
    /\ LET id == reqs[s].offer_id
       IN  IF id \notin DOMAIN offers
           THEN Finish(s, Response("accept_offer", 404, "Offer not found"))
           ELSE IF ~IsOpen(offers[id])
           THEN Finish(s, Response("accept_offer", 400, "Offer is no longer open"))
           ELSE IF IsOwnOffer(offers[id], reqs[s].agent)
           THEN Finish(s, Response("accept_offer", 400, "Cannot accept your own offer"))
           ELSE /\ reqs' = [reqs EXCEPT ![s].pc = "check", ![s].offer = offers[id]]
                /\ UNCHANGED resp
    /\ UNCHANGED <<dbVars, whole>>

\* accept_offer: the resource SELECTs of the offer type's branch
AcceptCheck(s) ==
    /\ reqs[s].op = "accept_offer" /\ reqs[s].pc = "check"
    /\ LET r == SettleCheck(coins, tiles, paint, offers, reqs[s].agent, reqs[s].offer)
       IN  IF r.code # 200
           THEN Finish(s, r)
           ELSE /\ reqs' = [reqs EXCEPT ![s].pc = "commit"]
                /\ UNCHANGED resp
    /\ UNCHANGED <<dbVars, whole>>

\* accept_offer: the trade's UPDATEs, the status UPDATE, revoke_done, commit
AcceptCommit(s) ==
    /\ reqs[s].op = "accept_offer" /\ reqs[s].pc = "commit"
    /\ coins' = SettledCoins(coins, reqs[s].agent, reqs[s].offer)
    /\ tiles' = SettledTiles(tiles, reqs[s].agent, reqs[s].offer)
    /\ paint' = SettledPaint(paint, reqs[s].agent, reqs[s].offer)
    /\ offers' = MarkAccepted(offers, reqs[s].offer_id, reqs[s].agent)
    /\ is_done' = revoke_done(is_done, reqs[s].agent, reqs[s].is_done)
    /\ Finish(s, Response("accept_offer", 200, "accepted"))
    /\ UNCHANGED <<status, grid_size, whole>>

\* cancel_offer: get_current_agent
BeginCancel(a, id) ==
    /\ \E s \in Slots :
        /\ Free(s)
        /\ reqs' = [reqs EXCEPT ![s] = Frame("cancel_offer", "read", a, id, NoRequest)]
    /\ UNCHANGED <<dbVars, resp, whole>>

\* cancel_offer: SELECT * FROM offers WHERE id = ?, then the owner and status checks
CancelRead(s) ==
    /\ reqs[s].op = "cancel_offer" /\ reqs[s].pc = "read"
    /\ LET id == reqs[s].offer_id
       IN  IF id \notin DOMAIN offers
           THEN Finish(s, Response("cancel_offer", 404, "Offer not found"))
           ELSE IF offers[id].agent_id # reqs[s].agent
           THEN Finish(s, Response("cancel_offer", 403, "Not your offer"))
           ELSE IF ~IsOpen(offers[id])
           THEN Finish(s, Response("cancel_offer", 400, "Offer is not open"))
           ELSE /\ reqs' = [reqs EXCEPT ![s].pc = "commit", ![s].offer = offers[id]]
                /\ UNCHANGED resp
    /\ UNCHANGED <<dbVars, whole>>

\* cancel_offer: the status UPDATE, commit
CancelCommit(s) ==
    /\ reqs[s].op = "cancel_offer" /\ reqs[s].pc = "commit"
    /\ offers' = MarkCancelled(offers, reqs[s].offer_id)
    /\ Finish(s, Response("cancel_offer", 200, "cancelled"))
    /\ UNCHANGED <<status, grid_size, coins, is_done, tiles, paint, whole>>

NextConc ==
    \/ \E a \in Agents, req \in ConcRequests : BeginPost(a, req) /\ UNCHANGED <<lobbyVars, ret, wsVars>>
    \/ \E s \in Slots : PostCheck(s) /\ UNCHANGED <<lobbyVars, ret, wsVars>>
    \/ \E s \in Slots : PostCommit(s) /\ UNCHANGED <<lobbyVars, ret, wsVars>>
    \/ \E a \in Agents, id \in 1..MaxOffers : BeginAccept(a, id) /\ UNCHANGED <<lobbyVars, ret, wsVars>>
    \/ \E s \in Slots : AcceptRead(s) /\ UNCHANGED <<lobbyVars, ret, wsVars>>
    \/ \E s \in Slots : AcceptCheck(s) /\ UNCHANGED <<lobbyVars, ret, wsVars>>
    \/ \E s \in Slots : AcceptCommit(s) /\ UNCHANGED <<lobbyVars, ret, wsVars>>
    \/ \E a \in Agents, id \in 1..MaxOffers : BeginCancel(a, id) /\ UNCHANGED <<lobbyVars, ret, wsVars>>
    \/ \E s \in Slots : CancelRead(s) /\ UNCHANGED <<lobbyVars, ret, wsVars>>
    \/ \E s \in Slots : CancelCommit(s) /\ UNCHANGED <<lobbyVars, ret, wsVars>>

SpecConc == InitConc /\ [][NextConc]_vars
----------------------------------------------------------------------------
(* The tile market: a running game in which the agents paint, unpaint and
   trade the tile, one request at a time, with room for one more offer. *)

\* rows the offers table may hold in the tile market
MaxTileOffers == 3

TileRequests == {r \in OfferRequests : r.offer_type \in {"sell_tile", "buy_tile"}}

\* a running game right after start_game's allocation
InitTiles ==
    LET ids == [i \in 1..NumAgents |-> i]
    IN  /\ status = "running"
        /\ grid_size = GridSize
        /\ coins = [a \in 1..NumAgents |-> InitialCoins]
        /\ is_done = [a \in 1..NumAgents |-> FALSE]
        /\ tiles = TilesTable(distribute_tiles(GridSize, ids))
        /\ \E shuffled \in Shuffles, draws \in DrawTapes :
               paint = PaintTable(distribute_paint(ids, GridSize, shuffled, draws))
        /\ offers = <<>>
        /\ resp = Response("start_game", 200, "running")
        /\ reqs = <<>>
        /\ whole = {}
        /\ OneGame

NextTiles ==
    \/ \E a \in Agents, xy \in ReqCoords, c \in ReqColors : PaintTile(a, xy[1], xy[2], c) /\ UNCHANGED <<lobbyVars, ret, wsVars>>
    \/ \E a \in Agents, xy \in ReqCoords : UnpaintTile(a, xy[1], xy[2]) /\ UNCHANGED <<lobbyVars, ret, wsVars>>
    \/ \E a \in Agents, req \in TileRequests : PostOfferUpTo(MaxTileOffers, a, req) /\ UNCHANGED <<lobbyVars, ret, wsVars>>
    \/ \E a \in Agents, id \in 1..MaxTileOffers : AcceptOffer(a, id) /\ UNCHANGED <<lobbyVars, ret, wsVars>>
    \/ \E a \in Agents, id \in 1..MaxTileOffers : CancelOffer(a, id) /\ UNCHANGED <<lobbyVars, ret, wsVars>>

SpecTiles == InitTiles /\ [][NextTiles]_vars

-----------------------------------------------------------------------------
(* Concurrent requests around the end of the game: paint_tile, unpaint_tile
   and declare_done each run on their own connection, and every SELECT and
   every commit of a handler is a step of its own. The game is played on the
   small grid, whose single tile can be colored so that the game can finish. *)

\* colors the clients paint with: the first color of the tile's owner
PhaseColors == {"teal"}

\* paint and unpaint requests are sent while every stock is within 0..MaxStock
MaxStock == 2

StockBounded == \A k \in DOMAIN paint : paint[k] \in 0..MaxStock

PhaseIdle ==
    [op |-> "idle", pc |-> "idle", agent |-> NoneInt, is_done |-> FALSE,
     x |-> NoneInt, y |-> NoneInt, color |-> NULL, tile_color |-> NULL]

\* the request's frame: the agent row read by get_current_agent, the request
\* body, and the tile row check_tile_ownership returns
PhaseFrame(op, pc, a, x, y, color) ==
    [op |-> op, pc |-> pc, agent |-> a, is_done |-> is_done[a],
     x |-> x, y |-> y, color |-> color, tile_color |-> NULL]

\* a running game on the small grid right after start_game's allocation
InitPhase ==
    LET ids == [i \in 1..NumAgents |-> i]
    IN  /\ status = "running"
        /\ grid_size = SmallGrid
        /\ coins = [a \in 1..NumAgents |-> InitialCoins]
        /\ is_done = [a \in 1..NumAgents |-> FALSE]
        /\ tiles = TilesTable(distribute_tiles(SmallGrid, ids))
        /\ \E shuffled \in Shuffles, draws \in DrawTapes :
               paint = PaintTable(distribute_paint(ids, SmallGrid, shuffled, draws))
        /\ offers = <<>>
        /\ resp = Response("start_game", 200, "running")
        /\ reqs = [s \in Slots |-> PhaseIdle]
        /\ whole = {}
        /\ OneGame

PhaseFinish(s, r) ==
    /\ reqs' = [reqs EXCEPT ![s] = PhaseIdle]
    /\ resp' = r

\* get_current_agent, require_running_game
PhaseBegin(op, a, x, y, color) ==
    /\ \E s \in Slots :
        /\ Free(s)
        /\ IF ~require_running_game(status)
           THEN PhaseFinish(s, Response(op, 400, "Game is not running"))
           ELSE /\ reqs' = [reqs EXCEPT ![s] = PhaseFrame(op, "check", a, x, y, color)]
                /\ UNCHANGED resp
    /\ UNCHANGED <<dbVars, whole>>

PaintBegin(a, x, y, color) ==
    /\ StockBounded
    /\ PhaseBegin("paint_tile", a, x, y, color)

\* paint_tile: check_tile_ownership, check_tile_not_locked, the quantity SELECT
PaintCheck(s) ==
    /\ reqs[s].op = "paint_tile" /\ reqs[s].pc = "check"
    /\ LET a == reqs[s].agent
           x == reqs[s].x
           y == reqs[s].y
       IN  IF ~TileExists(tiles, x, y)
           THEN PhaseFinish(s, Response("paint_tile", 404, "Tile not found"))
           ELSE IF tiles[<<x, y>>].owner_id # a
           THEN PhaseFinish(s, Response("paint_tile", 403, "You don't own this tile"))
           ELSE IF TileLocked(offers, a, x, y)
           THEN PhaseFinish(s, Response("paint_tile", 400, "Tile is locked in a marketplace offer"))
           ELSE IF ~HasStock(paint, a, reqs[s].color) \/ paint[<<a, reqs[s].color>>] < 1
           THEN PhaseFinish(s, Response("paint_tile", 400, "No paint available"))
           ELSE /\ reqs' = [reqs EXCEPT ![s].pc = "commit",
                                        ![s].tile_color = tiles[<<x, y>>].color]
                /\ UNCHANGED resp
    /\ UNCHANGED <<dbVars, whole>>

\* paint_tile: the refund of the old color, the two UPDATEs, revoke_done, commit
PaintCommit(s) ==
    /\ reqs[s].op = "paint_tile" /\ reqs[s].pc = "commit"
    /\ LET a == reqs[s].agent
           old == reqs[s].tile_color
           refunded == IF old # NULL THEN Upsert(paint, a, old, 1) ELSE paint
       IN  /\ tiles' = [tiles EXCEPT ![<<reqs[s].x, reqs[s].y>>].color = reqs[s].color]
           /\ paint' = Deduct(refunded, a, reqs[s].color, 1)
           /\ is_done' = revoke_done(is_done, a, reqs[s].is_done)
    /\ PhaseFinish(s, Response("paint_tile", 200, "painted"))
    /\ UNCHANGED <<status, grid_size, coins, offers, whole>>

UnpaintBegin(a, x, y) ==
    /\ StockBounded
    /\ PhaseBegin("unpaint_tile", a, x, y, NULL)

\* unpaint_tile: check_tile_ownership, the painted test, check_tile_not_locked
UnpaintCheck(s) ==
    /\ reqs[s].op = "unpaint_tile" /\ reqs[s].pc = "check"
    /\ LET a == reqs[s].agent
           x == reqs[s].x
           y == reqs[s].y
       IN  IF ~TileExists(tiles, x, y)
           THEN PhaseFinish(s, Response("unpaint_tile", 404, "Tile not found"))
           ELSE IF tiles[<<x, y>>].owner_id # a
           THEN PhaseFinish(s, Response("unpaint_tile", 403, "You don't own this tile"))
           ELSE IF tiles[<<x, y>>].color = NULL
           THEN PhaseFinish(s, Response("unpaint_tile", 400, "Tile is not painted"))
           ELSE IF TileLocked(offers, a, x, y)
           THEN PhaseFinish(s, Response("unpaint_tile", 400, "Tile is locked in a marketplace offer"))
           ELSE /\ reqs' = [reqs EXCEPT ![s].pc = "commit",
                                        ![s].tile_color = tiles[<<x, y>>].color]
                /\ UNCHANGED resp
    /\ UNCHANGED <<dbVars, whole>>

\* unpaint_tile: the refund, UPDATE tiles SET color = NULL, revoke_done, commit
UnpaintCommit(s) ==
    /\ reqs[s].op = "unpaint_tile" /\ reqs[s].pc = "commit"
    /\ paint' = Upsert(paint, reqs[s].agent, reqs[s].tile_color, 1)
    /\ tiles' = [tiles EXCEPT ![<<reqs[s].x, reqs[s].y>>].color = NULL]
    /\ is_done' = revoke_done(is_done, reqs[s].agent, reqs[s].is_done)
    /\ PhaseFinish(s, Response("unpaint_tile", 200, "unpainted"))
    /\ UNCHANGED <<status, grid_size, coins, offers, whole>>

DoneBegin(a) == PhaseBegin("declare_done", a, NoneInt, NoneInt, NULL)

\* declare_done: UPDATE agents SET is_done = TRUE, commit
DoneSet(s) ==
    /\ reqs[s].op = "declare_done" /\ reqs[s].pc = "check"
    /\ is_done' = [is_done EXCEPT ![reqs[s].agent] = TRUE]
    /\ reqs' = [reqs EXCEPT ![s].pc = "not_done"]
    /\ UNCHANGED <<status, grid_size, coins, tiles, paint, offers, resp, whole>>

\* declare_done: the count of the agents that are not done
DoneCount(s) ==
    /\ reqs[s].op = "declare_done" /\ reqs[s].pc = "not_done"
    /\ IF NotDone(is_done) # 0
       THEN PhaseFinish(s, Response("declare_done", 200, "done"))
       ELSE /\ reqs' = [reqs EXCEPT ![s].pc = "unpainted"]
            /\ UNCHANGED resp
    /\ UNCHANGED <<dbVars, whole>>

\* declare_done: the count of the tiles without a color
DoneTiles(s) ==
    /\ reqs[s].op = "declare_done" /\ reqs[s].pc = "unpainted"
    /\ IF Unpainted(tiles) # 0
       THEN PhaseFinish(s, Response("declare_done", 200, "done"))
       ELSE /\ reqs' = [reqs EXCEPT ![s].pc = "commit"]
            /\ UNCHANGED resp
    /\ UNCHANGED <<dbVars, whole>>

\* declare_done: UPDATE games SET status = 'finished', commit
DoneFinish(s) ==
    /\ reqs[s].op = "declare_done" /\ reqs[s].pc = "commit"
    /\ status' = "finished"
    /\ PhaseFinish(s, Response("declare_done", 200, "done"))
    /\ UNCHANGED <<grid_size, coins, is_done, tiles, paint, offers, whole>>

NextPhase ==
    \/ \E a \in Agents, xy \in ReqCoords, c \in PhaseColors : PaintBegin(a, xy[1], xy[2], c) /\ UNCHANGED <<lobbyVars, ret, wsVars>>
    \/ \E s \in Slots : PaintCheck(s) /\ UNCHANGED <<lobbyVars, ret, wsVars>>
    \/ \E s \in Slots : PaintCommit(s) /\ UNCHANGED <<lobbyVars, ret, wsVars>>
    \/ \E a \in Agents, xy \in ReqCoords : UnpaintBegin(a, xy[1], xy[2]) /\ UNCHANGED <<lobbyVars, ret, wsVars>>
    \/ \E s \in Slots : UnpaintCheck(s) /\ UNCHANGED <<lobbyVars, ret, wsVars>>
    \/ \E s \in Slots : UnpaintCommit(s) /\ UNCHANGED <<lobbyVars, ret, wsVars>>
    \/ \E a \in Agents : DoneBegin(a) /\ UNCHANGED <<lobbyVars, ret, wsVars>>
    \/ \E s \in Slots : DoneSet(s) /\ UNCHANGED <<lobbyVars, ret, wsVars>>
    \/ \E s \in Slots : DoneCount(s) /\ UNCHANGED <<lobbyVars, ret, wsVars>>
    \/ \E s \in Slots : DoneTiles(s) /\ UNCHANGED <<lobbyVars, ret, wsVars>>
    \/ \E s \in Slots : DoneFinish(s) /\ UNCHANGED <<lobbyVars, ret, wsVars>>

SpecPhase == InitPhase /\ [][NextPhase]_vars

-----------------------------------------------------------------------------
(* The lobby: games are created, agents register into the waiting game, the
   latest game is started, played to its end and reset. The tables hold the
   rows of several games; every handler runs as one atomic step. *)

\* rows ever inserted into games
MaxGames == 2
\* rows ever inserted into agents
MaxAgentRows == 4
\* names the clients register under
LobbyNames == {"ada", "bob"}

EmptyTable == [rows |-> <<>>, seq |-> 0]

\* INSERT into a table with an AUTOINCREMENT id
InsertRow(t, row) == [rows |-> t.rows @@ ((t.seq + 1) :> row), seq |-> t.seq + 1]

\* DELETE of the rows with ids in S
DeleteRows(t, S) == [rows |-> [i \in (DOMAIN t.rows) \ S |-> t.rows[i]], seq |-> t.seq]

Restrict(f, S) == [k \in S |-> f[k]]

Max(S) == CHOOSE m \in S : \A n \in S : n <= m

\* SELECT id FROM games ORDER BY id DESC LIMIT 1 (NoneInt: no row)
LatestGame ==
    IF DOMAIN games.rows = {} THEN NoneInt ELSE Max(DOMAIN games.rows)

\* SELECT id FROM games WHERE status = 'waiting' ORDER BY id DESC LIMIT 1
LatestWaiting ==
    LET W == {g \in DOMAIN games.rows : games.rows[g].status = "waiting"}
    IN  IF W = {} THEN NoneInt ELSE Max(W)

\* ids of the agents of game g
AgentsOf(t, g) == {a \in DOMAIN t.rows : t.rows[a].game_id = g}

\* SELECT id FROM agents WHERE game_id = ?, in rowid order
RECURSIVE Ascending(_)
Ascending(S) ==
    IF S = {} THEN <<>>
    ELSE Append(Ascending(S \ {Max(S)}), Max(S))

\* keys of the tiles of game g
TilesOf(ts, g) == {k \in DOMAIN ts : k[3] = g}

\* keys of the paint rows of the agents in S
PaintOf(p, S) == {k \in DOMAIN p : k[1] \in S}

\* the rows start_game inserts into tiles for game g
GameTiles(g, triples) ==
    [k \in {<<t[1], t[2], g>> : t \in Range(triples)} |->
        [owner_id |-> (CHOOSE t \in Range(triples) : t[1] = k[1] /\ t[2] = k[2])[3],
         color |-> NULL]]

InitLobby ==
    /\ status = NULL
    /\ grid_size = NoneInt
    /\ coins = <<>>
    /\ is_done = <<>>
    /\ tiles = <<>>
    /\ paint = <<>>
    /\ offers = <<>>
    /\ resp = Response("none", 0, "none")
    /\ reqs = <<>>
    /\ whole = {}
    /\ games = EmptyTable
    /\ agent_rows = EmptyTable
    /\ ret = NoCall
    /\ NoObservers

lobbyFixed == <<status, grid_size, offers, reqs, whole, ret, wsVars>>

CreateGame ==
    /\ games.seq < MaxGames
    /\ IF LatestWaiting # NoneInt
       THEN /\ resp' = Response("create_game", 400, "A game is already waiting for players")
            /\ UNCHANGED games
       ELSE /\ games' = InsertRow(games, [status |-> "waiting", grid_size |-> SmallGrid])
            /\ resp' = Response("create_game", 200, "waiting")
    /\ UNCHANGED <<agent_rows, coins, is_done, tiles, paint, lobbyFixed>>

\* the INSERT violates UNIQUE(game_id, name)
NameTaken(t, g, name) == \E a \in AgentsOf(t, g) : t.rows[a].name = name

Register(name) ==
    /\ agent_rows.seq < MaxAgentRows
    /\ LET g == LatestWaiting
       IN  IF g = NoneInt
           THEN /\ resp' = Response("register", 400, "No game waiting for players")
                /\ UNCHANGED <<agent_rows, coins, is_done>>
           ELSE IF Cardinality(AgentsOf(agent_rows, g)) >= MaxAgents
           THEN /\ resp' = Response("register", 400, "Game is full (max 8 agents)")
                /\ UNCHANGED <<agent_rows, coins, is_done>>
           ELSE IF NameTaken(agent_rows, g, name)
           THEN /\ resp' = Response("register", 409, "Agent name already taken")
                /\ UNCHANGED <<agent_rows, coins, is_done>>
           ELSE /\ agent_rows' = InsertRow(agent_rows, [game_id |-> g, name |-> name])
                /\ coins' = coins @@ ((agent_rows.seq + 1) :> InitialCoins)
                /\ is_done' = is_done @@ ((agent_rows.seq + 1) :> FALSE)
                /\ resp' = Response("register", 200, "registered")
    /\ UNCHANGED <<games, tiles, paint, lobbyFixed>>

DeleteAgent(id) ==
    /\ IF id \notin DOMAIN agent_rows.rows
       THEN /\ resp' = Response("delete_agent", 404, "Agent not found")
            /\ UNCHANGED <<agent_rows, coins, is_done>>
       ELSE IF games.rows[agent_rows.rows[id].game_id].status # "waiting"
       THEN /\ resp' = Response("delete_agent", 400, "Cannot remove agents after game has started")
            /\ UNCHANGED <<agent_rows, coins, is_done>>
       ELSE /\ agent_rows' = DeleteRows(agent_rows, {id})
            /\ coins' = Restrict(coins, (DOMAIN coins) \ {id})
            /\ is_done' = Restrict(is_done, (DOMAIN is_done) \ {id})
            /\ resp' = Response("delete_agent", 200, "deleted")
    /\ UNCHANGED <<games, tiles, paint, lobbyFixed>>

\* the second status test of start_game left out
NotWaiting_Never(st) == FALSE

\* dict(game)["status"] != "waiting"
NotWaiting(st) == st # "waiting"

\* one agent taken as enough
TooFewAgents_One(n) == n < 1

\* len(agents) < 2
TooFewAgents(n) == n < 2

\* start_game over the tables: the latest game is started
StartLatestGame ==
    /\ LET g == LatestGame
       IN  IF g # NoneInt /\ games.rows[g].status = "running"
           THEN /\ resp' = Response("start_game", 400, "Game already running")
                /\ UNCHANGED <<games, tiles, paint>>
           ELSE IF g = NoneInt \/ NotWaiting(games.rows[g].status)
           THEN /\ resp' = Response("start_game", 400, "No game in waiting state")
                /\ UNCHANGED <<games, tiles, paint>>
           ELSE IF TooFewAgents(Cardinality(AgentsOf(agent_rows, g)))
           THEN /\ resp' = Response("start_game", 400, "Need at least 2 agents to start")
                /\ UNCHANGED <<games, tiles, paint>>
           ELSE LET agent_ids == Ascending(AgentsOf(agent_rows, g))
                    size == games.rows[g].grid_size
                IN  \E shuffled \in Shuffles, draws \in DrawTapes :
                    /\ tiles' = tiles @@ GameTiles(g, distribute_tiles(size, agent_ids))
                    /\ paint' = paint @@ PaintTable(distribute_paint(agent_ids, size, shuffled, draws))
                    /\ games' = [games EXCEPT !.rows[g].status = "running"]
                    /\ resp' = Response("start_game", 200, "running")
    /\ UNCHANGED <<agent_rows, coins, is_done, lobbyFixed>>

ResetGame ==
    /\ LET g == LatestGame
       IN  IF g = NoneInt
           THEN /\ resp' = Response("reset_game", 200, "nothing_to_reset")
                /\ UNCHANGED <<games, agent_rows, coins, is_done, tiles, paint>>
           ELSE LET gone == AgentsOf(agent_rows, g)
                IN  /\ tiles' = Restrict(tiles, (DOMAIN tiles) \ TilesOf(tiles, g))
                    /\ paint' = Restrict(paint, (DOMAIN paint) \ PaintOf(paint, gone))
                    /\ agent_rows' = DeleteRows(agent_rows, gone)
                    /\ coins' = Restrict(coins, (DOMAIN coins) \ gone)
                    /\ is_done' = Restrict(is_done, (DOMAIN is_done) \ gone)
                    /\ games' = DeleteRows(games, {g})
                    /\ resp' = Response("reset_game", 200, "reset")
    /\ UNCHANGED lobbyFixed

\* paint_tile by agent a, a row of the agents table, in the game of a
PaintGameTile(a, x, y, color) ==
    /\ LET g == agent_rows.rows[a].game_id
           k == <<x, y, g>>
       IN  IF ~require_running_game(games.rows[g].status)
           THEN /\ resp' = Response("paint_tile", 400, "Game is not running")
                /\ UNCHANGED <<is_done, tiles, paint>>
           ELSE IF k \notin DOMAIN tiles
           THEN /\ resp' = Response("paint_tile", 404, "Tile not found")
                /\ UNCHANGED <<is_done, tiles, paint>>
           ELSE IF tiles[k].owner_id # a
           THEN /\ resp' = Response("paint_tile", 403, "You don't own this tile")
                /\ UNCHANGED <<is_done, tiles, paint>>
           ELSE IF TileLocked(offers, a, x, y)
           THEN /\ resp' = Response("paint_tile", 400, "Tile is locked in a marketplace offer")
                /\ UNCHANGED <<is_done, tiles, paint>>
           ELSE IF ~HasStock(paint, a, color) \/ paint[<<a, color>>] < 1
           THEN /\ resp' = Response("paint_tile", 400, "No paint available")
                /\ UNCHANGED <<is_done, tiles, paint>>
           ELSE LET old == tiles[k].color
                    refunded == Refund(paint, a, old)
                IN  /\ tiles' = [tiles EXCEPT ![k].color = color]
                    /\ paint' = Deduct(refunded, a, color, 1)
                    /\ is_done' = revoke_done(is_done, a, is_done[a])
                    /\ resp' = Response("paint_tile", 200, "painted")
    /\ UNCHANGED <<games, agent_rows, coins, lobbyFixed>>

\* declare_done by agent a in the game of a
DeclareGameDone(a) ==
    /\ LET g == agent_rows.rows[a].game_id
       IN  IF ~require_running_game(games.rows[g].status)
           THEN /\ resp' = Response("declare_done", 400, "Game is not running")
                /\ UNCHANGED <<games, is_done>>
           ELSE /\ is_done' = [is_done EXCEPT ![a] = TRUE]
                /\ games' = IF /\ \A b \in AgentsOf(agent_rows, g) : is_done'[b]
                               /\ \A k \in TilesOf(tiles, g) : tiles[k].color # NULL
                            THEN [games EXCEPT !.rows[g].status = "finished"]
                            ELSE games
                /\ resp' = Response("declare_done", 200, "done")
    /\ UNCHANGED <<agent_rows, coins, tiles, paint, lobbyFixed>>

NextLobby ==
    \/ CreateGame
    \/ \E name \in LobbyNames : Register(name)
    \/ \E id \in 1..MaxAgentRows : DeleteAgent(id)
    \/ StartLatestGame
    \/ ResetGame
    \/ \E a \in DOMAIN agent_rows.rows, xy \in ReqCoords, c \in PhaseColors :
           PaintGameTile(a, xy[1], xy[2], c)
    \/ \E a \in DOMAIN agent_rows.rows : DeclareGameDone(a)

SpecLobby == InitLobby /\ [][NextLobby]_vars

-----------------------------------------------------------------------------
(* Concurrent registration: every register request runs on its own
   connection; its two SELECTs read the committed tables at different moments
   and its INSERT takes effect at the commit. create_game and reset_game run
   as atomic steps between them. *)

\* names of the agents registered before the requests under study arrive
PreNames == <<"p1", "p2", "p3", "p4", "p5", "p6", "p7", "p8">>

\* numbers of agents already registered in the waiting game
PreRegistered == {0, MaxAgents - 1, MaxAgents}

RegisterIdle == [op |-> "idle", pc |-> "idle", game_id |-> NoneInt, name |-> NULL]

\* the request's frame: the game id read by the first SELECT and the body
RegisterFrame(pc, g, name) == [op |-> "register", pc |-> pc, game_id |-> g, name |-> name]

\* a waiting game with k agents registered one after the other
InitRegister ==
    /\ status = NULL
    /\ grid_size = NoneInt
    /\ tiles = <<>>
    /\ paint = <<>>
    /\ offers = <<>>
    /\ whole = {}
    /\ ret = NoCall
    /\ NoObservers
    /\ games = InsertRow(EmptyTable, [status |-> "waiting", grid_size |-> SmallGrid])
    /\ \E k \in PreRegistered :
        /\ agent_rows = [rows |-> [i \in 1..k |-> [game_id |-> 1, name |-> PreNames[i]]],
                         seq |-> k]
        /\ coins = [i \in 1..k |-> InitialCoins]
        /\ is_done = [i \in 1..k |-> FALSE]
    /\ resp = Response("create_game", 200, "waiting")
    /\ reqs = [s \in Slots |-> RegisterIdle]

registerFixed == <<status, grid_size, tiles, paint, offers, whole, ret, wsVars>>

RegisterFinish(s, r) ==
    /\ reqs' = [reqs EXCEPT ![s] = RegisterIdle]
    /\ resp' = r

\* register: SELECT the latest waiting game
RegisterBegin(name) ==
    /\ \E s \in Slots :
        /\ Free(s)
        /\ IF LatestWaiting = NoneInt
           THEN RegisterFinish(s, Response("register", 400, "No game waiting for players"))
           ELSE /\ reqs' = [reqs EXCEPT ![s] = RegisterFrame("count", LatestWaiting, name)]
                /\ UNCHANGED resp
    /\ UNCHANGED <<games, agent_rows, coins, is_done, registerFixed>>

\* register: SELECT COUNT(*) of the game's agents
RegisterCount(s) ==
    /\ reqs[s].op = "register"
    /\ reqs[s].pc = "count"
    /\ IF Cardinality(AgentsOf(agent_rows, reqs[s].game_id)) >= MaxAgents
       THEN RegisterFinish(s, Response("register", 400, "Game is full (max 8 agents)"))
       ELSE /\ reqs' = [reqs EXCEPT ![s].pc = "insert"]
            /\ UNCHANGED resp
    /\ UNCHANGED <<games, agent_rows, coins, is_done, registerFixed>>

\* register: INSERT and commit; UNIQUE(game_id, name) and the foreign key on
\* game_id raise IntegrityError
RegisterInsert(s) ==
    /\ reqs[s].op = "register"
    /\ reqs[s].pc = "insert"
    /\ LET g == reqs[s].game_id
           name == reqs[s].name
       IN  IF g \notin DOMAIN games.rows \/ NameTaken(agent_rows, g, name)
           THEN /\ RegisterFinish(s, Response("register", 409, "Agent name already taken"))
                /\ UNCHANGED <<agent_rows, coins, is_done>>
           ELSE /\ agent_rows' = InsertRow(agent_rows, [game_id |-> g, name |-> name])
                /\ coins' = coins @@ ((agent_rows.seq + 1) :> InitialCoins)
                /\ is_done' = is_done @@ ((agent_rows.seq + 1) :> FALSE)
                /\ RegisterFinish(s, Response("register", 200, "registered"))
    /\ UNCHANGED <<games, registerFixed>>

NextRegister ==
    \/ \E name \in LobbyNames : RegisterBegin(name)
    \/ \E s \in Slots : RegisterCount(s)
    \/ \E s \in Slots : RegisterInsert(s)
    \/ CreateGame
    \/ ResetGame

SpecRegister == InitRegister /\ [][NextRegister]_vars

-----------------------------------------------------------------------------
(* websocket.py: the observers. Handlers that have committed call
   manager.broadcast; broadcasts, connects and disconnects are coroutines of
   one event loop and interleave at every await. *)

\* WebSocket connections ever opened
MaxObservers == 3
Observers == 1..MaxObservers

\* list.remove(ws): the list without the first occurrence of ws
Remove(list, ws) ==
    LET i == CHOOSE k \in 1..Len(list) :
                 list[k] = ws /\ \A j \in 1..(k - 1) : list[j] # ws
    IN  SubSeq(list, 1, i - 1) \o SubSeq(list, i + 1, Len(list))

\* for ws in dead: self.connections.remove(ws); remove raises ValueError when
\* ws is not in the list, which ends the loop
RECURSIVE RemoveDead(_, _)
RemoveDead(list, dead) ==
    IF dead = <<>> THEN [connections |-> list, raised |-> FALSE]
    ELSE IF Head(dead) \notin Range(list) THEN [connections |-> list, raised |-> TRUE]
    ELSE RemoveDead(Remove(list, Head(dead)), Tail(dead))

BroadcastIdle ==
    [op |-> "idle", pc |-> "idle", i |-> 0, dead |-> <<>>,
     start |-> {}, tried |-> {}, got |-> {}]

\* the frame of a broadcast: i is the position of the list iterator, dead the
\* local list; start (the observers connected at the call), tried (sends
\* attempted) and got (sends that succeeded) record its history
BroadcastFrame(list) ==
    [op |-> "broadcast", pc |-> "send", i |-> 1, dead |-> <<>>,
     start |-> Range(list), tried |-> {}, got |-> {}]

InitBroadcast ==
    /\ status = NULL
    /\ grid_size = NoneInt
    /\ coins = <<>>
    /\ is_done = <<>>
    /\ tiles = <<>>
    /\ paint = <<>>
    /\ offers = <<>>
    /\ resp = Response("none", 0, "none")
    /\ reqs = [s \in Slots |-> BroadcastIdle]
    /\ whole = {}
    /\ games = <<>>
    /\ agent_rows = <<>>
    /\ ret = NoCall
    /\ connections = <<>>
    /\ sockets = [o \in Observers |-> "new"]

broadcastFixed == <<dbVars, whole, lobbyVars, ret>>

\* websocket_endpoint: manager.connect(ws)
Connect(o) ==
    /\ sockets[o] = "new"
    /\ connections' = Append(connections, o)
    /\ sockets' = [sockets EXCEPT ![o] = "open"]
    /\ UNCHANGED <<resp, reqs, broadcastFixed>>

\* the peer of observer o goes away
PeerCloses(o) ==
    /\ sockets[o] = "open"
    /\ sockets' = [sockets EXCEPT ![o] = "broken"]
    /\ UNCHANGED <<connections, resp, reqs, broadcastFixed>>

\* websocket_endpoint: receive_text raises WebSocketDisconnect and
\* manager.disconnect(ws) runs; its ValueError ends the endpoint's coroutine
Disconnect(o) ==
    /\ sockets[o] = "broken"
    /\ sockets' = [sockets EXCEPT ![o] = "gone"]
    /\ connections' = IF o \in Range(connections) THEN Remove(connections, o)
                      ELSE connections
    /\ UNCHANGED <<resp, reqs, broadcastFixed>>

\* a handler that has committed calls manager.broadcast(event)
BroadcastBegin ==
    /\ \E s \in Slots :
        /\ Free(s)
        /\ reqs' = [reqs EXCEPT ![s] = BroadcastFrame(connections)]
    /\ UNCHANGED <<resp, wsVars, broadcastFixed>>

\* the iterator of "for ws in self.connections" yields the next observer and
\* ws.send_text(payload) is awaited; a send to a socket that is not open raises
BroadcastSend(s) ==
    /\ reqs[s].op = "broadcast"
    /\ reqs[s].i <= Len(connections)
    /\ LET ws == connections[reqs[s].i]
       IN  reqs' = [reqs EXCEPT
                      ![s].i = @ + 1,
                      ![s].tried = @ \cup {ws},
                      ![s].got = IF sockets[ws] = "open" THEN @ \cup {ws} ELSE @,
                      ![s].dead = IF sockets[ws] = "open" THEN @ ELSE Append(@, ws)]
    /\ UNCHANGED <<resp, wsVars, broadcastFixed>>

\* the iterator is exhausted: the dead observers are removed and broadcast
\* returns to the handler, or raises ValueError to it
BroadcastReturn(s) ==
    /\ reqs[s].op = "broadcast"
    /\ reqs[s].i > Len(connections)
    /\ LET r == RemoveDead(connections, reqs[s].dead)
       IN  /\ connections' = r.connections
           /\ resp' = IF r.raised THEN Response("broadcast", 500, "ValueError")
                      ELSE Response("broadcast", 200, "returned")
    /\ reqs' = [reqs EXCEPT ![s] = BroadcastIdle]
    /\ UNCHANGED <<sockets, broadcastFixed>>

NextBroadcast ==
    \/ \E o \in Observers : Connect(o)
    \/ \E o \in Observers : PeerCloses(o)
    \/ \E o \in Observers : Disconnect(o)
    \/ BroadcastBegin
    \/ \E s \in Slots : BroadcastSend(s)
    \/ \E s \in Slots : BroadcastReturn(s)

SpecBroadcast == InitBroadcast /\ [][NextBroadcast]_vars

-----------------------------------------------------------------------------
(* get_inventory next to the mutating handlers: its three SELECTs run outside
   any transaction, each reads the state committed at its moment; the
   mutating handlers commit between them as atomic steps. ret holds the call:
   what it has read so far and, as history, every committed state of the
   agent's inventory since its first SELECT. *)

\* {color: quantity} of agent a (fetch_agent_inventory, first SELECT)
PaintOfAgent(p, a) ==
    [c \in {c \in Range(COLOR_NAMES) : HasStock(p, a, c)} |-> p[<<a, c>>]]

\* the tiles of agent a with their colors (fetch_agent_inventory, second SELECT)
TilesOfAgent(ts, a) ==
    {<<k[1], k[2], ts[k].color>> : k \in {k \in DOMAIN ts : ts[k].owner_id = a}}

\* the inventory of agent a in one committed state
Snapshot(cs, p, ts, a) ==
    [coins |-> cs[a], paint |-> PaintOfAgent(p, a), tiles |-> TilesOfAgent(ts, a)]

\* a get_inventory call is between its first and its last SELECT
Reading == ret.fn = "get_inventory" /\ ret.pc # "returned"

\* a small grid with its game waiting, no get_inventory under way
InitInventory ==
    /\ status = "waiting"
    /\ grid_size = SmallGrid
    /\ coins = [a \in 1..NumAgents |-> InitialCoins]
    /\ is_done = [a \in 1..NumAgents |-> FALSE]
    /\ tiles = <<>>
    /\ paint = <<>>
    /\ offers = <<>>
    /\ resp = Response("register", 200, "ok")
    /\ reqs = <<>>
    /\ whole = {}
    /\ OneGame

\* get_inventory: get_current_agent and the SELECT of coins and is_done
InventoryBegin(a) ==
    /\ ~Reading
    /\ ret' = [fn |-> "get_inventory", pc |-> "paint", agent |-> a,
               coins |-> coins[a], is_done |-> is_done[a],
               paint |-> <<>>, tiles |-> {},
               seen |-> {Snapshot(coins, paint, tiles, a)}]
    /\ UNCHANGED <<gameVars, lobbyVars, wsVars>>

\* fetch_agent_inventory: SELECT color, quantity FROM paint_inventory
InventoryPaint ==
    /\ Reading
    /\ ret.pc = "paint"
    /\ ret' = [ret EXCEPT !.paint = PaintOfAgent(paint, ret.agent), !.pc = "tiles"]
    /\ UNCHANGED <<gameVars, lobbyVars, wsVars>>

\* fetch_agent_inventory: SELECT x, y, color FROM tiles; the response
InventoryTiles ==
    /\ Reading
    /\ ret.pc = "tiles"
    /\ ret' = [ret EXCEPT !.tiles = TilesOfAgent(tiles, ret.agent), !.pc = "returned"]
    /\ resp' = Response("get_inventory", 200, "inventory")
    /\ UNCHANGED <<dbVars, reqs, whole, lobbyVars, wsVars>>

\* a mutating handler commits: the state it leaves joins the history of the
\* call under way
Committed ==
    /\ ret' = IF Reading
              THEN [ret EXCEPT !.seen = @ \cup {Snapshot(coins', paint', tiles', ret.agent)}]
              ELSE ret
    /\ UNCHANGED <<lobbyVars, wsVars>>

NextInventory ==
    \/ StartGame /\ Committed
    \/ \E a \in Agents, xy \in ReqCoords, c \in ReqColors : PaintTile(a, xy[1], xy[2], c) /\ Committed
    \/ \E a \in Agents, xy \in ReqCoords : UnpaintTile(a, xy[1], xy[2]) /\ Committed
    \/ \E a \in Agents, req \in OfferRequests : PostOffer(a, req) /\ Committed
    \/ \E a \in Agents, id \in 1..MaxOffers : AcceptOffer(a, id) /\ Committed
    \/ \E a \in Agents, id \in 1..MaxOffers : CancelOffer(a, id) /\ Committed
    \/ \E a \in Agents : InventoryBegin(a)
    \/ InventoryPaint
    \/ InventoryTiles

SpecInventory == InitInventory /\ [][NextInventory]_vars

-----------------------------------------------------------------------------
(* Painting with several colors on tiles that change hands: the running game
   on the full grid, paint requests naming two colors that start with
   different agents, and the tile market. *)

\* colors named by the paint requests
RepaintColors == {"indigo", "teal"}

NextRepaint ==
    \/ \E a \in Agents, xy \in ReqCoords, c \in RepaintColors : PaintTile(a, xy[1], xy[2], c) /\ UNCHANGED <<lobbyVars, ret, wsVars>>
    \/ \E a \in Agents, xy \in ReqCoords : UnpaintTile(a, xy[1], xy[2]) /\ UNCHANGED <<lobbyVars, ret, wsVars>>
    \/ \E a \in Agents, req \in TileRequests : PostOffer(a, req) /\ UNCHANGED <<lobbyVars, ret, wsVars>>
    \/ \E a \in Agents, id \in 1..MaxOffers : AcceptOffer(a, id) /\ UNCHANGED <<lobbyVars, ret, wsVars>>
    \/ \E a \in Agents, id \in 1..MaxOffers : CancelOffer(a, id) /\ UNCHANGED <<lobbyVars, ret, wsVars>>

SpecRepaint == InitTiles /\ [][NextRepaint]_vars

-----------------------------------------------------------------------------
(* The allocation functions of game.py called on their own: the arguments
   are drawn from bounded sets and ret records the call with its return
   value. *)

\* largest grid_size passed to the allocation functions
MaxAllocGrid == 6
\* the random.choice draws are (a * j + b) % 8 for a in 0..MaxDrawStep
MaxDrawStep == 2

\* agent id lists: ids in rowid order, ids with gaps (rows deleted by
\* delete_agent), and ids in descending order
AllocAgentLists ==
    UNION {{[i \in 1..k |-> i], [i \in 1..k |-> 2 * i + 1], [i \in 1..k |-> k + 1 - i]} :
               k \in 2..MaxAgents}

\* sequence s rotated left by n
Rotate(s, n) == [i \in DOMAIN s |-> s[((i - 1 + n) % Len(s)) + 1]]

\* outcomes of random.shuffle explored: rotations of the palette and of its reverse
AllocShuffles ==
    {Rotate(COLOR_NAMES, n) : n \in {0, 3}}
    \cup {Rotate([i \in DOMAIN COLOR_NAMES |-> COLOR_NAMES[9 - i]], n) : n \in {0, 5}}

\* outcomes of the successive random.choice calls explored
AllocTapes ==
    {[j \in 1..(MaxAgents * ColorsPerAgent) |-> (a * j + b) % 8] :
         a \in 0..MaxDrawStep, b \in {0, 3, 7}}

\* the arguments of the call that has not been made yet
Pending(size, agent_ids, shuffled, draws) ==
    [fn |-> "none", size |-> size, agent_ids |-> agent_ids,
     shuffled |-> shuffled, draws |-> draws, value |-> <<>>]

InitAlloc ==
    /\ status = NULL
    /\ grid_size = NoneInt
    /\ coins = <<>>
    /\ is_done = <<>>
    /\ tiles = <<>>
    /\ paint = <<>>
    /\ offers = <<>>
    /\ resp = Response("none", 0, "none")
    /\ reqs = <<>>
    /\ whole = {}
    /\ games = <<>>
    /\ agent_rows = <<>>
    /\ NoObservers
    /\ \E size \in 1..MaxAllocGrid, agent_ids \in AllocAgentLists,
          shuffled \in AllocShuffles, draws \in AllocTapes :
           ret = Pending(size, agent_ids, shuffled, draws)

CallDistributeTiles ==
    /\ ret.fn = "none"
    /\ ret' = [ret EXCEPT !.fn = "distribute_tiles",
                          !.value = distribute_tiles(ret.size, ret.agent_ids)]
    /\ UNCHANGED <<gameVars, lobbyVars, wsVars>>

CallDistributePaint ==
    /\ ret.fn = "none"
    /\ ret' = [ret EXCEPT !.fn = "distribute_paint",
                          !.value = distribute_paint(ret.agent_ids, ret.size,
                                                     ret.shuffled, ret.draws)]
    /\ UNCHANGED <<gameVars, lobbyVars, wsVars>>

NextAlloc ==
    \/ CallDistributeTiles
    \/ CallDistributePaint

SpecAlloc == InitAlloc /\ [][NextAlloc]_vars

----------------------------------------------------------------------------
(* Properties *)

RECURSIVE SumCoins(_, _)
SumCoins(cs, S) ==
    IF S = {} THEN 0
    ELSE LET a == CHOOSE b \in S : TRUE IN cs[a] + SumCoins(cs, S \ {a})

TotalCoins == SumCoins(coins, Agents)

SellTypes == {"sell_tile", "sell_paint"}
BuyTypes == {"buy_tile", "buy_paint"}

\* the open offers of agent a whose type is in types, in offers table os
OpenOffersOf(os, a, types) ==
    {i \in DOMAIN os : /\ os[i].status = "open"
                       /\ os[i].agent_id = a
                       /\ os[i].offer_type \in types}

\* coins minus the prices of the agent's own open buy_tile and buy_paint offers
CoinsFree(cs, os, a) == cs[a] - SumPrice(os, OpenOffersOf(os, a, BuyTypes))

\* stock minus the quantities of the agent's own open sell_paint offers of the color
PaintFree(p, os, a, c) ==
    Stock(p, a, c)
        - SumQuantity(os, {i \in OpenOffersOf(os, a, {"sell_paint"}) :
                               os[i].paint_color = c})

\* the step is the successful acceptance of open offer id by agent b
Accepted(b, id) ==
    /\ resp' = Response("accept_offer", 200, "accepted")
    /\ id \in DOMAIN offers
    /\ offers[id].status = "open"
    /\ AcceptOffer(b, id)

\* who pays and who is paid when b accepts offer row o
Buyer(o, b) == IF o.offer_type \in SellTypes THEN b ELSE o.agent_id
Seller(o, b) == IF o.offer_type \in SellTypes THEN o.agent_id ELSE b

\* a step either leaves all coins alone or is a successful accept_offer
\* that moves exactly price from the buyer to the seller
CoinStep ==
    /\ (resp'.op # "accept_offer" \/ resp'.code # 200) => coins' = coins
    /\ \A b \in Agents, id \in DOMAIN offers :
           Accepted(b, id) =>
               LET o == offers[id]
               IN  /\ Buyer(o, b) # Seller(o, b)
                   /\ coins'[Buyer(o, b)] = coins[Buyer(o, b)] - o.price
                   /\ coins'[Seller(o, b)] = coins[Seller(o, b)] + o.price
                   /\ \A c \in Agents \ {Buyer(o, b), Seller(o, b)} :
                          coins'[c] = coins[c]

\* C1: in every state of a started game the coins of all agents sum to what
\* they summed to at game start, and every step moves coins only by a
\* successful accept_offer, price from buyer to seller
C1_CoinsConserved ==
    /\ [](status \in {"running", "finished"}
              => TotalCoins = InitialCoins * Cardinality(Agents))
    /\ [][CoinStep]_vars

C1_Witness ==
    /\ resp.op = "accept_offer" /\ resp.code = 200
    /\ \E a \in Agents : coins[a] > InitialCoins
    /\ \E a \in Agents : coins[a] < InitialCoins

\* slot s commits the writes of a request of one of the routes in ops
Commits(s, ops) ==
    /\ reqs[s].op \in ops /\ reqs[s].pc = "commit"
    /\ reqs'[s] = IdleFrame

SettledOnceStep ==
    /\ \A s \in Slots :
           Commits(s, {"accept_offer"}) => offers[reqs[s].offer_id].status = "open"
    /\ \A id \in DOMAIN offers :
           offers[id].status # "open" => offers'[id].status = offers[id].status

\* C2: when accept_offer and cancel_offer requests on one offer run
\* concurrently, a trade is settled only on an offer that is still open (so
\* at most once, and never after a cancel), and a status that has left open
\* never changes again (in particular never accepted -> cancelled)
C2_AtMostOnce == [][SettledOnceStep]_vars

TerminalStep ==
    /\ \A a \in Agents, id \in DOMAIN offers :
           (/\ resp'.op \in {"accept_offer", "cancel_offer"}
            /\ offers[id].status # "open"
            /\ (AcceptOffer(a, id) \/ CancelOffer(a, id)))
               => /\ resp'.code # 200
                  /\ UNCHANGED dbVars
    /\ \A id \in DOMAIN offers :
           /\ id \in DOMAIN offers'
           /\ offers'[id].status # offers[id].status
                  => /\ offers[id].status = "open"
                     /\ offers'[id].status \in {"accepted", "cancelled"}

\* C3: with one request at a time, accept_offer and cancel_offer on an offer
\* that is accepted or cancelled fail and change no table; an offer's status
\* only ever goes from open to accepted or from open to cancelled
C3_TerminalOffers == [][TerminalStep]_vars

C3_Witness ==
    /\ resp.code = 400
    /\ resp.detail \in {"Offer is no longer open", "Offer is not open"}
    /\ \E id \in DOMAIN offers : offers[id].status = "accepted"
    /\ \E id \in DOMAIN offers : offers[id].status = "cancelled"

BuyPostCommitStep ==
    \A s \in Slots :
        (/\ Commits(s, {"post_offer"})
         /\ reqs[s].req.offer_type \in BuyTypes
         /\ CoinsFree(coins, offers, reqs[s].agent) >= 0) =>
            CoinsFree(coins', offers', reqs[s].agent) >= 0

\* C4: with post_offer requests of one agent running concurrently, the
\* committed insert of a buy offer never takes the agent's coins minus the
\* prices of its open buy offers below zero
C4_ConcurrentPostsWithinCoins == [][BuyPostCommitStep]_vars

\* C5: every paint stock quantity of every agent and color is >= 0
C5_StockNonNegative == \A k \in DOMAIN paint : paint[k] >= 0

PaintStep ==
    \A a \in Agents, xy \in ReqCoords, c \in ReqColors :
        (resp'.op = "paint_tile" /\ PaintTile(a, xy[1], xy[2], c)) =>
            /\ resp'.code = 200 => PaintFree(paint, offers, a, c) >= 1
            /\ PaintFree(paint, offers, a, c) < 1
                   => resp'.code # 200 /\ UNCHANGED dbVars

\* C6: paint_tile succeeds only if the agent's available paint of the color
\* (stock minus its open sell_paint offers) is >= 1; otherwise it is
\* rejected and nothing changes
C6_PaintNeedsAvailable == [][PaintStep]_vars

SellPaintRequests == {r \in OfferRequests : r.offer_type = "sell_paint"}

\* sell_paint is posted only within the available paint, and refused without
\* any change beyond it
PostWithinAvailable ==
    \A a \in Agents, r \in SellPaintRequests :
        (resp'.op = "post_offer" /\ PostOffer(a, r)) =>
            /\ resp'.code = 200
                   => r.paint_quantity <= PaintFree(paint, offers, a, r.paint_color)
            /\ r.paint_quantity > PaintFree(paint, offers, a, r.paint_color)
                   => resp'.code # 200 /\ UNCHANGED dbVars

\* agent a has an open sell_paint offer of color c that was posted for its
\* whole stock of c
WholeStockOffered(a, c) ==
    \E i \in whole :
        /\ offers[i].status = "open"
        /\ offers[i].agent_id = a
        /\ offers[i].paint_color = c

\* agent a has an open sell_paint offer of color c for at least what a holds of c
WholeStockLocked(a, c) ==
    \E i \in DOMAIN offers :
        /\ offers[i].status = "open"
        /\ offers[i].offer_type = "sell_paint"
        /\ offers[i].agent_id = a
        /\ offers[i].paint_color = c
        /\ Stock(paint, a, c) <= offers[i].paint_quantity

\* C7 as stated: sell_paint is posted only within the available paint, and
\* once an agent has posted a sell_paint offer for its whole stock of a color
\* every further sell_paint post of that color is refused while it is open
C7_Original ==
    [][/\ PostWithinAvailable
       /\ \A a \in Agents, r \in SellPaintRequests :
              (/\ resp'.op = "post_offer"
               /\ WholeStockOffered(a, r.paint_color)
               /\ PostOffer(a, r))
                  => resp'.code # 200]_vars

\* C7 amended: sell_paint is posted only within the available paint, and
\* while an open sell_paint offer of the agent covers all it now holds of
\* the color every further sell_paint post of that color is refused
C7_Amended ==
    [][/\ PostWithinAvailable
       /\ \A a \in Agents, r \in SellPaintRequests :
              (/\ resp'.op = "post_offer"
               /\ WholeStockLocked(a, r.paint_color)
               /\ PostOffer(a, r))
                  => resp'.code # 200 /\ UNCHANGED dbVars]_vars

C7_Witness ==
    /\ resp = Response("post_offer", 400, "Insufficient paint")
    /\ \E a \in Agents, c \in ReqColors :
           /\ WholeStockOffered(a, c)
           /\ WholeStockLocked(a, c)
           /\ Stock(paint, a, c) >= 1

BuyRequests == {r \in OfferRequests : r.offer_type \in BuyTypes}

\* the tile named by a buy_tile request exists and belongs to another agent
BuyTilePrecondition(a, r) ==
    r.offer_type = "buy_tile" =>
        /\ <<r.tile_x, r.tile_y>> \in DOMAIN tiles
        /\ tiles[<<r.tile_x, r.tile_y>>].owner_id # a

BuyPostStep ==
    \A a \in Agents, r \in BuyRequests :
        (resp'.op = "post_offer" /\ status = "running" /\ PostOffer(a, r)) =>
            /\ r.price > CoinsFree(coins, offers, a)
                   => resp'.code # 200 /\ UNCHANGED dbVars
            /\ (r.price <= CoinsFree(coins, offers, a) /\ BuyTilePrecondition(a, r))
                   => /\ resp'.code = 200
                      /\ offers' = Append(offers, OfferRow(a, r))

\* C8: in a running game a buy_tile or buy_paint post whose price exceeds the
\* poster's available coins is refused, creating no offer and changing
\* nothing; one within the available coins whose tile precondition holds
\* creates the open offer
C8_BuyWithinCoins == [][BuyPostStep]_vars

C8_Witness ==
    /\ resp = Response("post_offer", 400, "Insufficient coins")
    /\ \E a \in Agents :
           /\ OpenOffersOf(offers, a, BuyTypes) # {}
           /\ CoinsFree(coins, offers, a) < InitialCoins
           /\ CoinsFree(coins, offers, a) >= 0

SellPaintStep ==
    \A b \in Agents, id \in DOMAIN offers :
        (Accepted(b, id) /\ offers[id].offer_type = "sell_paint") =>
            LET o == offers[id]
                A == o.agent_id
                c == o.paint_color
            IN  /\ A # b
                /\ coins' = [coins EXCEPT ![A] = coins[A] + o.price,
                                          ![b] = coins[b] - o.price]
                /\ <<b, c>> \in DOMAIN paint'
                /\ paint'[<<b, c>>] = Stock(paint, b, c) + o.paint_quantity
                /\ Stock(paint', A, c) = Stock(paint, A, c) - o.paint_quantity
                /\ DOMAIN paint' = DOMAIN paint \cup {<<b, c>>}
                /\ \A k \in DOMAIN paint \ {<<A, c>>, <<b, c>>} : paint'[k] = paint[k]
                /\ tiles' = tiles
                /\ offers' = [offers EXCEPT ![id] =
                                  [o EXCEPT !.status = "accepted", !.accepted_by = b]]

\* C9: the successful acceptance by B of A's open sell_paint offer of q units
\* of c at price p gives A p coins and takes q of c from A, takes p coins from
\* B and gives B q of c (in a row that exists afterwards), marks the offer
\* accepted by B, and changes no other coins, no other stock and no tile
C9_SellPaintSettlement == [][SellPaintStep]_vars

C9_Witness ==
    /\ resp = Response("accept_offer", 200, "accepted")
    /\ \E id \in DOMAIN offers :
           /\ offers[id].offer_type = "sell_paint"
           /\ offers[id].status = "accepted"
           /\ offers[id].accepted_by # offers[id].agent_id
           /\ Stock(paint, offers[id].accepted_by, offers[id].paint_color) >= 1
           /\ coins[offers[id].accepted_by] < InitialCoins

SellTileStep ==
    \A b \in Agents, id \in DOMAIN offers :
        (Accepted(b, id) /\ offers[id].offer_type = "sell_tile") =>
            LET o == offers[id]
                A == o.agent_id
                xy == <<o.tile_x, o.tile_y>>
            IN  /\ A # b
                /\ CoinsFree(coins, offers, b) >= o.price
                /\ coins' = [coins EXCEPT ![A] = coins[A] + o.price,
                                          ![b] = coins[b] - o.price]
                /\ xy \in DOMAIN tiles
                /\ tiles[xy].owner_id = A
                /\ tiles' = [tiles EXCEPT ![xy] =
                                 [owner_id |-> b, color |-> tiles[xy].color]]
                /\ paint' = paint
                /\ offers' = [offers EXCEPT ![id] =
                                  [o EXCEPT !.status = "accepted", !.accepted_by = b]]

\* C10: the successful acceptance by B of A's open sell_tile offer of tile
\* (x, y) at price p needs B's available coins >= p, takes p coins from B and
\* gives them to A, changes the tile's owner from A to B and nothing else of
\* the tiles, and marks the offer accepted by B
C10_SellTileSettlement == [][SellTileStep]_vars

C10_Witness ==
    /\ resp = Response("accept_offer", 200, "accepted")
    /\ \E id \in DOMAIN offers :
           /\ offers[id].offer_type = "sell_tile"
           /\ offers[id].status = "accepted"
           /\ <<offers[id].tile_x, offers[id].tile_y>> \in DOMAIN tiles
           /\ tiles[<<offers[id].tile_x, offers[id].tile_y>>].owner_id
                  = offers[id].accepted_by
           /\ offers[id].accepted_by # offers[id].agent_id

\* agent a has an open sell_tile offer of its own on tile (x, y)
OwnOpenSellTile(a, x, y) ==
    \E i \in OpenOffersOf(offers, a, {"sell_tile"}) :
        offers[i].tile_x = x /\ offers[i].tile_y = y

BuyTileStep ==
    \A b \in Agents, id \in DOMAIN offers :
        (Accepted(b, id) /\ offers[id].offer_type = "buy_tile") =>
            LET o == offers[id]
                A == o.agent_id
                xy == <<o.tile_x, o.tile_y>>
            IN  /\ A # b
                /\ xy \in DOMAIN tiles
                /\ tiles[xy].owner_id = b
                /\ ~OwnOpenSellTile(b, o.tile_x, o.tile_y)
                /\ coins' = [coins EXCEPT ![A] = coins[A] - o.price,
                                          ![b] = coins[b] + o.price]
                /\ tiles' = [tiles EXCEPT ![xy] =
                                 [owner_id |-> A, color |-> tiles[xy].color]]

\* C11: accept_offer by B of A's open buy_tile offer of tile (x, y) at price p
\* succeeds only if B owns the tile and has no open sell_tile offer of its
\* own on it; on success A pays p to B and the tile's owner changes from B to A
C11_BuyTileSettlement == [][BuyTileStep]_vars

C11_Witness ==
    /\ resp = Response("accept_offer", 200, "accepted")
    /\ \E id \in DOMAIN offers :
           /\ offers[id].offer_type = "buy_tile"
           /\ offers[id].status = "accepted"
           /\ tiles[<<offers[id].tile_x, offers[id].tile_y>>].owner_id = offers[id].agent_id
           /\ coins[offers[id].agent_id] < InitialCoins
           /\ coins[offers[id].accepted_by] > InitialCoins

\* accepter b fails the settlement precondition of open offer row o
SettlementPreconditionFails(b, o) ==
    IF o.offer_type \in SellTypes
    THEN CoinsFree(coins, offers, b) < o.price
    ELSE IF o.offer_type = "buy_tile"
    THEN \/ <<o.tile_x, o.tile_y>> \notin DOMAIN tiles
         \/ tiles[<<o.tile_x, o.tile_y>>].owner_id # b
         \/ OwnOpenSellTile(b, o.tile_x, o.tile_y)
    ELSE PaintFree(paint, offers, b, o.paint_color) < o.paint_quantity

FailedSettlementStep ==
    \A b \in Agents, id \in DOMAIN offers :
        (/\ resp'.op = "accept_offer"
         /\ status = "running"
         /\ offers[id].status = "open"
         /\ offers[id].agent_id # b
         /\ SettlementPreconditionFails(b, offers[id])
         /\ AcceptOffer(b, id))
            => /\ resp'.code # 200
               /\ offers'[id].status = "open"
               /\ UNCHANGED dbVars

\* C12: an accept_offer whose settlement precondition fails (coins for
\* sell_tile and sell_paint, tile ownership and lock for buy_tile, available
\* paint for buy_paint) is refused, the offer stays open, and no coins,
\* paint, tile or is_done flag changes
C12_FailedSettlementChangesNothing == [][FailedSettlementStep]_vars

C12_Witness ==
    /\ resp.op = "accept_offer"
    /\ resp.detail \in {"Insufficient coins", "Insufficient paint",
                        "You don't own this tile", "Tile is locked in your own offer"}
    /\ \E b \in Agents, id \in DOMAIN offers :
           /\ offers[id].status = "open"
           /\ offers[id].agent_id # b
           /\ SettlementPreconditionFails(b, offers[id])

\* agent a owns tile xy and has an open sell_tile or buy_tile offer naming it
OwnerHasOpenTileOffer(a, xy) ==
    /\ xy \in DOMAIN tiles
    /\ tiles[xy].owner_id = a
    /\ \E i \in OpenOffersOf(offers, a, {"sell_tile", "buy_tile"}) :
           offers[i].tile_x = xy[1] /\ offers[i].tile_y = xy[2]

TileLockStep ==
    \A a \in Agents, xy \in ReqCoords :
        OwnerHasOpenTileOffer(a, xy) =>
            /\ \A c \in ReqColors :
                   (resp'.op = "paint_tile" /\ PaintTile(a, xy[1], xy[2], c))
                       => resp'.code # 200
            /\ (resp'.op = "unpaint_tile" /\ UnpaintTile(a, xy[1], xy[2]))
                   => resp'.code # 200
            /\ \A r \in TileRequests :
                   (/\ resp'.op = "post_offer"
                    /\ r.offer_type = "sell_tile"
                    /\ r.tile_x = xy[1] /\ r.tile_y = xy[2]
                    /\ PostOfferUpTo(MaxTileOffers, a, r))
                       => resp'.code # 200

\* C13: while the owner of a tile has an open sell_tile or buy_tile offer
\* naming the tile, every paint_tile, unpaint_tile and sell_tile post_offer
\* by that owner for that tile is rejected
C13_OwnerTileLocked == [][TileLockStep]_vars

\* the cells of the game's grid
Grid == (0..(grid_size - 1)) \X (0..(grid_size - 1))

\* the step is a successful accept_offer of an open tile offer naming tile xy
TileTradeOf(xy) ==
    \E b \in Agents, id \in DOMAIN offers :
        /\ Accepted(b, id)
        /\ offers[id].offer_type \in {"sell_tile", "buy_tile"}
        /\ <<offers[id].tile_x, offers[id].tile_y>> = xy

OwnerStep ==
    \A xy \in DOMAIN tiles :
        /\ xy \in DOMAIN tiles'
        /\ tiles'[xy].owner_id # tiles[xy].owner_id => TileTradeOf(xy)

\* C14: once the game is running every tile of the grid has exactly one
\* owner, an agent of the game, and a tile's owner changes only in a
\* successful accept_offer of a sell_tile or buy_tile offer naming that tile
C14_OwnersChangeOnlyByTileTrade ==
    /\ [](status \in {"running", "finished"}
              => /\ DOMAIN tiles = Grid
                 /\ \A xy \in Grid : tiles[xy].owner_id \in Agents)
    /\ [][OwnerStep]_vars

C14_Witness ==
    /\ resp = Response("accept_offer", 200, "accepted")
    /\ grid_size = GridSize
    /\ tiles[<<0, 0>>].owner_id
           # TilesTable(distribute_tiles(grid_size, AgentIds))[<<0, 0>>].owner_id
    /\ tiles[<<0, 0>>].color # NULL

EconomyOps == {"paint_tile", "unpaint_tile", "post_offer", "accept_offer", "declare_done"}

NotRunningStep ==
    (status \in {"waiting", "finished"} /\ resp'.op \in EconomyOps)
        => /\ resp'.code = 400
           /\ resp'.detail = "Game is not running"
           /\ UNCHANGED dbVars

\* C15: paint_tile, unpaint_tile, post_offer, accept_offer and declare_done
\* issued while the game is waiting or finished are rejected with the
\* game-not-running error and change no tile, paint stock, coin balance,
\* offer or is_done flag
C15_NotRunningRejected == [][NotRunningStep]_vars

C15_Witness ==
    /\ status = "finished"
    /\ resp.op \in EconomyOps
    /\ resp.code = 400
    /\ resp.detail = "Game is not running"
    /\ offers # <<>>

CancelNotRunningStep ==
    \A a \in Agents, id \in DOMAIN offers :
        (/\ resp'.op = "cancel_offer"
         /\ status # "running"
         /\ offers[id].status = "open"
         /\ CancelOffer(a, id))
            => /\ resp'.code # 200
               /\ offers'[id].status = "open"

\* C16: cancel_offer issued while the game is not running (for example
\* after it has finished) is rejected and the offer stays open
C16_CancelNeedsRunningGame == [][CancelNotRunningStep]_vars

DeclareDoneStep ==
    \A a \in Agents :
        (resp'.op = "declare_done" /\ status = "running" /\ DeclareDone(a)) =>
            LET done == [is_done EXCEPT ![a] = TRUE]
                complete == /\ \A b \in Agents : done[b]
                            /\ \A xy \in DOMAIN tiles : tiles[xy].color # NULL
            IN  /\ is_done' = done
                /\ status' = IF complete THEN "finished" ELSE "running"
                /\ UNCHANGED <<grid_size, coins, tiles, paint, offers>>

\* C18: declare_done by A in a running game sets A.is_done and finishes the
\* game if and only if every agent is then done and every tile has a color;
\* otherwise the game stays running and nothing but A.is_done changes
C18_FinishIffAllDoneAndPainted == [][DeclareDoneStep]_vars

C18_Witness ==
    /\ resp = Response("declare_done", 200, "done")
    /\ status = "finished"
    /\ \A a \in Agents : is_done[a]
    /\ \A xy \in DOMAIN tiles : tiles[xy].color # NULL

\* the step is a successful paint_tile, unpaint_tile, post_offer or
\* accept_offer performed by agent a
ActsSuccessfully(a) ==
    /\ resp'.code = 200
    /\ \/ /\ resp'.op = "paint_tile"
          /\ \E xy \in ReqCoords, c \in ReqColors : PaintTile(a, xy[1], xy[2], c)
       \/ /\ resp'.op = "unpaint_tile"
          /\ \E xy \in ReqCoords : UnpaintTile(a, xy[1], xy[2])
       \/ /\ resp'.op = "post_offer"
          /\ \E r \in OfferRequests : PostOffer(a, r)
       \/ /\ resp'.op = "accept_offer"
          /\ \E id \in DOMAIN offers : AcceptOffer(a, id)

\* C19: after a successful paint_tile, unpaint_tile, post_offer or
\* accept_offer by agent A, A.is_done is false whatever it was before
C19_ActionRevokesDone == [][\A a \in Agents : ActsSuccessfully(a) => ~is_done'[a]]_vars

C19_Witness ==
    /\ resp.code = 200
    /\ resp.op \in {"paint_tile", "unpaint_tile", "post_offer", "accept_offer"}
    /\ status = "running"
    /\ \A xy \in DOMAIN tiles : tiles[xy].color # NULL
    /\ \E a \in Agents : is_done[a]
    /\ \E a \in Agents : ~is_done[a]

\* C20: after a successful accept_offer is_done is false for both parties:
\* the accepting agent and the agent who posted the offer
C20_AcceptClearsBothParties ==
    [][\A b \in Agents, id \in DOMAIN offers :
           Accepted(b, id) => ~is_done'[b] /\ ~is_done'[offers[id].agent_id]]_vars

\* C17: under concurrent requests a finished game has every agent done and
\* every tile colored: no paint_tile or unpaint_tile that passed its running
\* check commits a change to a game that declare_done has finished
C17_FinishedGameStaysComplete ==
    status = "finished" =>
        /\ \A a \in Agents : is_done[a]
        /\ \A xy \in DOMAIN tiles : tiles[xy].color # NULL

\* agent a owns tile xy, which no open tile offer of a names
OwnsUnlocked(a, xy) ==
    /\ status = "running"
    /\ xy \in DOMAIN tiles
    /\ tiles[xy].owner_id = a
    /\ ~OwnerHasOpenTileOffer(a, xy)

PaintUnpaintStep ==
    \A a \in Agents, xy \in ReqCoords :
        /\ \A c \in ReqColors :
               (/\ resp'.op = "paint_tile"
                /\ OwnsUnlocked(a, xy)
                /\ tiles[xy].color = NULL
                /\ <<a, c>> \in DOMAIN paint
                /\ paint[<<a, c>>] >= 1
                /\ PaintTile(a, xy[1], xy[2], c))
                   => /\ resp'.code = 200
                      /\ tiles' = [tiles EXCEPT ![xy].color = c]
                      /\ paint' = [paint EXCEPT ![<<a, c>>] = @ - 1]
        /\ (/\ resp'.op = "unpaint_tile"
            /\ OwnsUnlocked(a, xy)
            /\ tiles[xy].color # NULL
            /\ UnpaintTile(a, xy[1], xy[2]))
               => LET c == tiles[xy].color
                  IN  /\ resp'.code = 200
                      /\ tiles' = [tiles EXCEPT ![xy].color = NULL]
                      /\ paint' = IF <<a, c>> \in DOMAIN paint
                                  THEN [paint EXCEPT ![<<a, c>>] = @ + 1]
                                  ELSE paint @@ (<<a, c>> :> 1)

\* C25: paint_tile of an unpainted, unlocked own tile with a color in stock
\* sets the color and takes exactly 1 from the stock; unpaint_tile of the
\* tile clears the color and gives exactly 1 back, so the pair leaves the
\* paint inventory and the grid as they were
C25_PaintUnpaintRoundTrip == [][PaintUnpaintStep]_vars

\* the state after paint_tile and unpaint_tile of tile (0, 0): the grid and
\* the inventory are those of the allocation
C25_Witness ==
    /\ resp = Response("unpaint_tile", 200, "unpainted")
    /\ status = "running"
    /\ \A xy \in DOMAIN tiles : tiles[xy].color = NULL
    /\ \E shuffled \in Shuffles, draws \in DrawTapes :
           paint = PaintTable(distribute_paint(AgentIds, grid_size, shuffled, draws))
    /\ offers = <<>>

GridRejectionStep ==
    \A a \in Agents, xy \in ReqCoords :
        (status = "running" /\ xy \in DOMAIN tiles) =>
            /\ \A c \in ReqColors :
                   (resp'.op = "paint_tile" /\ PaintTile(a, xy[1], xy[2], c)) =>
                       /\ tiles[xy].owner_id # a =>
                              resp' = Response("paint_tile", 403, "You don't own this tile")
                       /\ OwnerHasOpenTileOffer(a, xy) =>
                              resp' = Response("paint_tile", 400, "Tile is locked in a marketplace offer")
                       /\ (<<a, c>> \notin DOMAIN paint \/ paint[<<a, c>>] < 1) =>
                              resp'.code # 200
                       /\ resp'.code # 200 => UNCHANGED <<tiles, paint, is_done>>
            /\ (resp'.op = "unpaint_tile" /\ UnpaintTile(a, xy[1], xy[2])) =>
                   /\ tiles[xy].owner_id # a =>
                          resp' = Response("unpaint_tile", 403, "You don't own this tile")
                   /\ (tiles[xy].owner_id = a /\ tiles[xy].color = NULL) =>
                          resp' = Response("unpaint_tile", 400, "Tile is not painted")
                   /\ OwnerHasOpenTileOffer(a, xy) => resp'.code # 200
                   /\ resp'.code # 200 => UNCHANGED <<tiles, paint, is_done>>

\* C26: paint_tile is rejected on a tile the agent does not own, on a tile
\* locked by its own open tile offer and without stock of the color;
\* unpaint_tile is rejected on a not-owned, unpainted or locked tile; every
\* rejection leaves tile colors, paint stocks and is_done flags unchanged
C26_GridRejections == [][GridRejectionStep]_vars

C26_Witness ==
    /\ resp = Response("paint_tile", 400, "Tile is locked in a marketplace offer")
    /\ \E a \in Agents, xy \in ReqCoords, c \in ReqColors :
           /\ OwnerHasOpenTileOffer(a, xy)
           /\ <<a, c>> \in DOMAIN paint
           /\ paint[<<a, c>>] >= 1

OwnAcceptStep ==
    \A b \in Agents, id \in DOMAIN offers :
        (/\ resp'.op = "accept_offer"
         /\ offers[id].agent_id = b
         /\ AcceptOffer(b, id))
            => /\ resp'.code # 200
               /\ UNCHANGED dbVars

\* C27: accept_offer by the poster of the offer fails and changes nothing,
\* whatever the offer type, and every accepted offer has accepted_by
\* different from its poster
C27_NoSelfAccept ==
    /\ [](\A i \in DOMAIN offers :
              offers[i].status = "accepted" => offers[i].accepted_by # offers[i].agent_id)
    /\ [][OwnAcceptStep]_vars

C27_Witness ==
    /\ resp = Response("accept_offer", 400, "Cannot accept your own offer")
    /\ \E i \in DOMAIN offers : offers[i].status = "open"

CancelStep ==
    \A a \in Agents, id \in 1..MaxOffers :
        (resp'.op = "cancel_offer" /\ CancelOffer(a, id)) =>
            /\ resp'.code = 200 =>
                   /\ id \in DOMAIN offers
                   /\ offers[id].agent_id = a
                   /\ offers[id].status = "open"
                   /\ offers' = [offers EXCEPT ![id].status = "cancelled"]
            /\ (id \in DOMAIN offers /\ offers[id].agent_id # a) =>
                   /\ resp'.code # 200
                   /\ offers' = offers
            /\ resp'.code # 200 => offers' = offers
            /\ UNCHANGED <<status, grid_size, coins, is_done, tiles, paint>>

\* C28: cancel_offer succeeds only for the poster of an open offer and then
\* changes nothing but that offer's status, which becomes cancelled: coins,
\* paint stocks, tile owners and colors and is_done flags stay as they were;
\* a cancel by another agent fails and leaves the offer as it was
C28_CancelFrame == [][CancelStep]_vars

C28_Witness ==
    /\ resp = Response("cancel_offer", 200, "cancelled")
    /\ \E i, j \in DOMAIN offers :
           /\ offers[i].status = "cancelled"
           /\ offers[j].status = "open"

\* C23: distribute_tiles(N, agents) returns exactly N^2 triples in which
\* every cell (x, y) of the grid appears exactly once and every owner is one
\* of the agents
C23_TilesCoverGrid ==
    ret.fn = "distribute_tiles" =>
        LET v == ret.value
            N == ret.size
        IN  /\ Len(v) = N * N
            /\ \A x \in 0..(N - 1), y \in 0..(N - 1) :
                   Cardinality({i \in DOMAIN v : v[i][1] = x /\ v[i][2] = y}) = 1
            /\ \A i \in DOMAIN v : v[i][3] \in Range(ret.agent_ids)

\* a grid with fewer columns than agents
C23_Witness ==
    /\ ret.fn = "distribute_tiles"
    /\ ret.size = 3
    /\ Len(ret.agent_ids) = MaxAgents
    /\ Len(ret.value) = 9

RECURSIVE SumTriples(_)
SumTriples(S) ==
    IF S = {} THEN 0
    ELSE LET t == CHOOSE u \in S : TRUE IN t[3] + SumTriples(S \ {t})

\* C24: distribute_paint gives each agent exactly 4 distinct colors of the
\* palette, every color of the palette is held by some agent, every quantity
\* is ceil(N^2 / (4K)), and the quantities sum to at least N^2
C24_PaintAllocation ==
    ret.fn = "distribute_paint" =>
        LET v == ret.value
            N == ret.size
            K == Len(ret.agent_ids)
        IN  /\ \A a \in Range(ret.agent_ids) :
                   /\ Cardinality({t \in v : t[1] = a}) = 4
                   /\ Cardinality({t[2] : t \in {u \in v : u[1] = a}}) = 4
            /\ \A t \in v : t[1] \in Range(ret.agent_ids) /\ t[2] \in Range(COLOR_NAMES)
            /\ \A c \in Range(COLOR_NAMES) : \E t \in v : t[2] = c
            /\ \A t \in v : /\ t[3] * 4 * K >= N * N
                            /\ (t[3] - 1) * 4 * K < N * N
            /\ SumTriples(v) >= N * N

\* an allocation whose second pass draws colors at random for 8 agents
C24_Witness ==
    /\ ret.fn = "distribute_paint"
    /\ Len(ret.agent_ids) = MaxAgents
    /\ ret.size = MaxAllocGrid
    /\ ret.draws[1] # ret.draws[2]
    /\ Cardinality(ret.value) = 4 * MaxAgents

\* the phase of game g moves from st to st2 in the step
PhaseMoves(g, st, st2) ==
    /\ g \in DOMAIN games.rows
    /\ g \in DOMAIN games'.rows
    /\ games.rows[g].status = st
    /\ games'.rows[g].status = st2

\* C21: a game's phase only moves waiting -> running, by a successful
\* start_game, and running -> finished, by a successful declare_done; a game
\* enters the table in phase waiting under an id no game had before
C21_PhaseMoves ==
    [][/\ \A g \in DOMAIN games.rows \cap DOMAIN games'.rows :
             games.rows[g].status # games'.rows[g].status =>
                 \/ /\ PhaseMoves(g, "waiting", "running")
                    /\ resp' = Response("start_game", 200, "running")
                 \/ /\ PhaseMoves(g, "running", "finished")
                    /\ resp' = Response("declare_done", 200, "done")
       /\ \A g \in (DOMAIN games'.rows) \ DOMAIN games.rows :
             /\ games'.rows[g].status = "waiting"
             /\ g > games.seq
             /\ resp' = Response("create_game", 200, "waiting")]_vars

\* a finished game and a running game side by side: both moves have happened,
\* and start_game has run with a finished game in the table
C21_Witness ==
    /\ \E g \in DOMAIN games.rows : games.rows[g].status = "finished"
    /\ \E g \in DOMAIN games.rows : games.rows[g].status = "running"
    /\ resp = Response("start_game", 200, "running")

\* the tables a request can change
lobbyDb == <<games, agent_rows, coins, is_done, tiles, paint, offers>>

\* game g holds the allocation of start_game: one tile per cell of its grid,
\* each owned by an agent of g
Allocated(g) ==
    LET size == games.rows[g].grid_size
    IN  /\ Cardinality(TilesOf(tiles, g)) = size * size
        /\ \A x \in 0..(size - 1), y \in 0..(size - 1) : <<x, y, g>> \in DOMAIN tiles
        /\ \A k \in TilesOf(tiles, g) : tiles[k].owner_id \in AgentsOf(agent_rows, g)

\* game g holds no tile and its agents hold no paint
Unallocated(g) ==
    /\ TilesOf(tiles, g) = {}
    /\ PaintOf(paint, AgentsOf(agent_rows, g)) = {}

StartGameStep ==
    resp'.op = "start_game" =>
        IF resp'.code = 200
        THEN /\ LatestGame # NoneInt
             /\ games.rows[LatestGame].status = "waiting"
             /\ Cardinality(AgentsOf(agent_rows, LatestGame)) >= 2
             /\ Unallocated(LatestGame)
             /\ games'.rows[LatestGame].status = "running"
             /\ TilesOf(tiles', LatestGame) # {}
             /\ \A a \in AgentsOf(agent_rows, LatestGame) : PaintOf(paint', {a}) # {}
        ELSE UNCHANGED lobbyDb

\* C22: start_game succeeds only when the latest game is waiting and has at
\* least 2 agents; tiles, paint and the phase running appear in one step, so
\* that in every state a waiting game has no tiles and no paint and a running
\* or finished game has grid_size^2 tiles, each owned by an agent of the game;
\* a failed start_game changes nothing
C22_StartAllocates ==
    /\ [](\A g \in DOMAIN games.rows :
              IF games.rows[g].status = "waiting" THEN Unallocated(g) ELSE Allocated(g))
    /\ [][StartGameStep]_vars

\* the second game has just been started
C22_Witness ==
    /\ resp = Response("start_game", 200, "running")
    /\ LatestGame = MaxGames
    /\ Allocated(LatestGame)
    /\ \A a \in AgentsOf(agent_rows, LatestGame) : PaintOf(paint, {a}) # {}

\* games in phase waiting or running
ActiveGames == {g \in DOMAIN games.rows : games.rows[g].status \in {"waiting", "running"}}

\* C30: in every reachable state at most one game is in phase waiting or
\* running
C30_OneActiveGame == Cardinality(ActiveGames) <= 1

\* C29: in every reachable state, concurrent register requests included, a
\* game has at most 8 agents and no two agents of a game share a name
C29_AtMostEightAgents ==
    \A g \in DOMAIN games.rows :
        /\ Cardinality(AgentsOf(agent_rows, g)) <= MaxAgents
        /\ \A a, b \in AgentsOf(agent_rows, g) :
               agent_rows.rows[a].name = agent_rows.rows[b].name => a = b

\* game_status: the status reported for the latest game, "no_game" without one
game_status_of(t) ==
    IF DOMAIN t.rows = {} THEN "no_game" ELSE t.rows[Max(DOMAIN t.rows)].status

\* C31: after a successful reset_game no game exists: game_status reports
\* no_game and no agent, tile or paint row remains
C31_ResetLeavesNothing ==
    [][resp'.op = "reset_game" /\ resp'.code = 200 =>
          /\ game_status_of(games') = "no_game"
          /\ DOMAIN games'.rows = {}
          /\ DOMAIN agent_rows'.rows = {}
          /\ DOMAIN tiles' = {}
          /\ DOMAIN paint' = {}
          /\ DOMAIN coins' = {}]_vars

\* the broadcast of slot s ends in the step
BroadcastEnds(s) == reqs[s].op = "broadcast" /\ reqs'[s].op = "idle"

\* C32: a broadcast attempts delivery to every observer connected when it
\* started (here: to those still connected with an open socket when it ends),
\* every observer whose delivery failed is out of the connection set when it
\* ends, and it removes no observer whose delivery succeeded
C32_BroadcastDelivers ==
    [][\A s \in DOMAIN reqs : BroadcastEnds(s) =>
          /\ \A o \in reqs[s].start :
                 o \in Range(connections) /\ sockets[o] = "open" => o \in reqs[s].tried
          /\ \A o \in Range(reqs[s].dead) : o \notin Range(connections')
          /\ \A o \in reqs[s].got :
                 o \in Range(connections) => o \in Range(connections')]_vars

\* C33: broadcast never raises to the operation that called it
C33_BroadcastNeverRaises ==
    [][resp'.op = "broadcast" => resp'.code = 200]_vars

\* C34: the coins, paint map and tile list returned by get_inventory are the
\* agent's inventory in one state committed during the call
C34_InventorySnapshot ==
    ret.fn = "get_inventory" /\ ret.pc = "returned" =>
        [coins |-> ret.coins, paint |-> ret.paint, tiles |-> ret.tiles] \in ret.seen

\* a successful paint_tile by agent a with color c on tile (x, y), which was
\* colored old, a color other than c: old is refunded to a, c is deducted
\* from a, the tile takes c and nothing else moves
RepaintEffect(a, x, y, c, old) ==
    /\ tiles' = [tiles EXCEPT ![<<x, y>>].color = c]
    /\ tiles[<<x, y>>].owner_id = a
    /\ Stock(paint', a, old) = Stock(paint, a, old) + 1
    /\ Stock(paint', a, c) = Stock(paint, a, c) - 1
    /\ \A k \in DOMAIN paint' : k \notin {<<a, old>>, <<a, c>>} =>
           k \in DOMAIN paint /\ paint'[k] = paint[k]
    /\ \A k \in DOMAIN paint : k \in DOMAIN paint'

\* C35: paint_tile with color c_new on an owned, unlocked tile colored
\* c_old # c_new adds 1 to stock(agent, c_old), takes 1 from
\* stock(agent, c_new) and sets the tile color to c_new; the refund goes to
\* the tile's current owner
C35_RepaintRefunds ==
    [][resp'.op = "paint_tile" =>
          \A a \in Agents, xy \in ReqCoords, c \in RepaintColors :
              /\ PaintTile(a, xy[1], xy[2], c)
              /\ resp'.code = 200
              /\ tiles[xy].color \notin {NULL, c}
              => RepaintEffect(a, xy[1], xy[2], c, tiles[xy].color)]_vars

\* agent 2, who was allocated no indigo, has bought the tile agent 1 painted
\* indigo, has repainted it teal and holds the refunded indigo
C35_Witness ==
    /\ resp = Response("paint_tile", 200, "painted")
    /\ tiles[<<0, 0>>].owner_id = 2
    /\ tiles[<<0, 0>>].color = "teal"
    /\ Stock(paint, 2, "indigo") = 1
    /\ Stock(paint, 1, "indigo") = 1

\* the cells the list v of (x, y, owner_id) gives to agent a
CellsOf(v, a) == {<<v[i][1], v[i][2]>> : i \in {j \in DOMAIN v : v[j][3] = a}}

\* S is the set of cells of one axis-aligned rectangle of the N x N grid
\* (x0 <= x < x1, y0 <= y < y1)
IsRectangle(S, N) ==
    \E x0 \in 0..N, x1 \in 0..N, y0 \in 0..N, y1 \in 0..N :
        S = (x0..(x1 - 1)) \X (y0..(y1 - 1))

\* S is one of the four (N/2) x (N/2) corners of the grid
IsQuadrant(S, N) ==
    LET h == N \div 2
    IN  \E x0 \in {0, h}, y0 \in {0, h} :
            S = (x0..(x0 + h - 1)) \X (y0..(y0 + h - 1))

\* C36: for even N, distribute_tiles gives each of exactly 4 agents one
\* (N/2) x (N/2) quadrant and each of exactly 2 agents N^2/2 tiles; for every
\* number of agents in 2..8 the cells of each agent form one axis-aligned
\* rectangle
C36_QuadrantsAndRectangles ==
    ret.fn = "distribute_tiles" =>
        LET v == ret.value
            N == ret.size
            ids == ret.agent_ids
        IN  /\ \A a \in Range(ids) : IsRectangle(CellsOf(v, a), N)
            /\ N % 2 = 0 /\ Len(ids) = 4 =>
                   /\ \A a \in Range(ids) : IsQuadrant(CellsOf(v, a), N)
                   /\ \A a, b \in Range(ids) : a # b => CellsOf(v, a) # CellsOf(v, b)
            /\ N % 2 = 0 /\ Len(ids) = 2 =>
                   \A a \in Range(ids) : 2 * Cardinality(CellsOf(v, a)) = N * N

\* four agents on the grid of the largest even size
C36_Witness ==
    /\ ret.fn = "distribute_tiles"
    /\ ret.size = 2 * (MaxAllocGrid \div 2)
    /\ Len(ret.agent_ids) = 4
    /\ \A a \in Range(ret.agent_ids) : IsQuadrant(CellsOf(ret.value, a), ret.size)

\* offer row i is an open sell_tile offer
OpenSellTile(os, i) == os[i].status = "open" /\ os[i].offer_type = "sell_tile"

\* the poster of every open sell_tile offer owns the tile, and no agent has
\* two open sell_tile offers for one tile
SellersOwnTheirTiles ==
    \A i \in DOMAIN offers : OpenSellTile(offers, i) =>
        /\ TileExists(tiles, offers[i].tile_x, offers[i].tile_y)
        /\ tiles[<<offers[i].tile_x, offers[i].tile_y>>].owner_id = offers[i].agent_id
        /\ \A j \in DOMAIN offers :
               /\ OpenSellTile(offers, j)
               /\ offers[j].agent_id = offers[i].agent_id
               /\ offers[j].tile_x = offers[i].tile_x
               /\ offers[j].tile_y = offers[i].tile_y
               => j = i

\* a sell_tile offer is settled in the step: the tile leaves its owner, who is
\* the poster and is paid the price
SellTileSettlementStep ==
    \A i \in DOMAIN offers :
        OpenSellTile(offers, i) /\ offers'[i].status = "accepted" =>
            LET xy == <<offers[i].tile_x, offers[i].tile_y>>
                seller == tiles[xy].owner_id
            IN  /\ seller = offers[i].agent_id
                /\ coins'[seller] = coins[seller] + offers[i].price
                /\ tiles'[xy].owner_id = offers'[i].accepted_by
                /\ tiles'[xy].owner_id # seller

\* C37: with atomic operations, the poster of every open sell_tile offer is
\* the current owner of the offered tile and no agent has two open sell_tile
\* offers for the same tile; so a sell_tile settlement never takes a tile from
\* an agent who is not paid for it
C37_SellerOwnsTile ==
    /\ []SellersOwnTheirTiles
    /\ [][resp'.op = "accept_offer" => SellTileSettlementStep]_vars

\* the tile has been sold and sold back, and its first owner lists it again
C37_Witness ==
    /\ \E i, j \in DOMAIN offers :
           /\ offers[i].offer_type = "sell_tile" /\ offers[i].status = "accepted"
           /\ offers[j].offer_type = "buy_tile" /\ offers[j].status = "accepted"
    /\ \E i \in DOMAIN offers : OpenSellTile(offers, i)

\* C38: with atomic operations, every agent's available coins (coins minus
\* the prices of its own open buy_tile and buy_paint offers) are >= 0 in every
\* reachable state, and so is every coin balance
C38_AvailableCoinsNonNegative ==
    \A a \in Agents :
        /\ CoinsFree(coins, offers, a) >= 0
        /\ coins[a] >= 0

\* an agent whose buy offer was settled at its expense is left with less than
\* any price and is refused a further buy offer
C38_Witness ==
    /\ resp = Response("post_offer", 400, "Insufficient coins")
    /\ \E a \in Agents :
        /\ \A p \in TilePrices \cup PaintPrices : coins[a] < p
        /\ \E i \in DOMAIN offers :
               /\ offers[i].agent_id = a
               /\ offers[i].offer_type \in BuyTypes
               /\ offers[i].status = "accepted"

\* the sum of stock(a, c) over the agents in S
RECURSIVE StockOfAll(_, _, _)
StockOfAll(p, S, c) ==
    IF S = {} THEN 0
    ELSE LET a == CHOOSE b \in S : TRUE
         IN  Stock(p, a, c) + StockOfAll(p, S \ {a}, c)

\* paint of color c in the game: in the agents' stocks and on the tiles
PaintInGame(p, ts, c) ==
    StockOfAll(p, Agents, c) + Cardinality({k \in DOMAIN ts : ts[k].color = c})

\* paint of color c handed out by start_game
PaintAllocated(shuffled, draws, c) ==
    StockOfAll(PaintTable(distribute_paint(AgentIds, grid_size, shuffled, draws)), Agents, c)

\* C39: with atomic operations, for every color the stocks of all agents plus
\* the number of tiles of that color are, in every state of a running game,
\* what they were right after allocation
C39_PaintConserved ==
    status = "running" =>
        \E shuffled \in Shuffles, draws \in DrawTapes :
            \A c \in Range(COLOR_NAMES) :
                PaintInGame(paint, tiles, c) = PaintAllocated(shuffled, draws, c)

\* paint has been traded and a tile has been painted by an agent who could
\* paint it once more
C39_Witness ==
    /\ status = "running"
    /\ resp = Response("paint_tile", 200, "painted")
    /\ \E i \in DOMAIN offers :
           offers[i].status = "accepted" /\ offers[i].offer_type \in {"sell_paint", "buy_paint"}
    /\ \E k \in DOMAIN tiles :
           /\ tiles[k].color # NULL
           /\ Stock(paint, tiles[k].owner_id, tiles[k].color) > 0
           /\ ~TileLocked(offers, tiles[k].owner_id, k[1], k[2])

\* game_status: all_done = len(agents) > 0 and all(is_done), and then
\* all_done and painted == total_tiles
all_done ==
    /\ Cardinality(Agents) > 0
    /\ \A a \in Agents : is_done[a]
    /\ Cardinality({xy \in DOMAIN tiles : tiles[xy].color # NULL}) = grid_size * grid_size

\* every agent is done and every tile is colored
Complete ==
    /\ \A a \in Agents : is_done[a]
    /\ \A xy \in DOMAIN tiles : tiles[xy].color # NULL

\* C40: with atomic operations no finish is missed: a running game is never
\* complete (all agents done and all tiles colored), a finished game always
\* is, and game_status reports all_done exactly when the game is finished
C40_NoFinishMissed ==
    /\ status = "running" => ~Complete
    /\ status = "finished" => Complete
    /\ all_done <=> status = "finished"

\* a running game one step from complete: every tile colored after a trade,
\* and the agent that painted last is the only one not done
C40_Witness ==
    /\ status = "running"
    /\ resp = Response("paint_tile", 200, "painted")
    /\ \A xy \in DOMAIN tiles : tiles[xy].color # NULL
    /\ Cardinality({a \in Agents : ~is_done[a]}) = 1
    /\ \E i \in DOMAIN offers : offers[i].status = "accepted"
====
